---- MODULE Spec2Model ----
(***************************************************************************)
(* Verification model of the ALIS control panels.                          *)
(*                                                                         *)
(* Part I  : IonizerCurrentControl (src/Ionizer_Ramp2.py) - the timed ramp *)
(*           of the ionizer current, the failsafe file, emergency stop.    *)
(* Part II : StepperMotorController / SequenceWorker                       *)
(*           (src/Sample_BLK_commented.py) - the position sequence runner. *)
(* Part III: IonizerMaintenanceControl                                     *)
(*           (src/Source_Maintainance_Commented.py) - valves, venting.     *)
(* Part IV : the additions of a ramp of Part I in IEEE 754 double          *)
(*           precision, for ramps whose tick count depends on rounding.    *)
(*                                                                         *)
(* Currents are fixed-point numbers: 1 A = AMP grid units.  Python float   *)
(* arithmetic is modelled on that grid: sums and differences are exact, a  *)
(* float division rounds to the nearest grid point.                        *)
(***************************************************************************)
EXTENDS Integers, Sequences, FiniteSets, TLC

\* ------------------------------------------------------------------------
\* Bounds of the model
\* ------------------------------------------------------------------------
\* grid points per (0.01 A/min * 100 ms) of ramp, i.e. the float resolution
U == 60
\* ramps with more than this many timer ticks are not explored
MaxRampSteps == 6
\* number of ramps started in one run of the panel
MaxRamps == 1
\* number of SequenceWorker objects created in one run of the panel
MaxWorkers == 2
\* longest position_sequence the operator assembles
MaxSeqLen == 1
\* command and response lines in transit on the socket at one time
MaxPending == 2
\* number of data files that appear during a run
MaxFiles == 2
\* number of steps of a list assembled before the session
SeqLen == 3
\* number of data files that appear while the magnet panel is open
MaxMagFiles == 2
\* distance from an end of the slider's range, in arrow steps, within which the
\* arrow buttons are followed
MaxArrowSteps == 1

\* ------------------------------------------------------------------------
\* Units and program constants of the ionizer panel
\* ------------------------------------------------------------------------
AMP == 60000 * U
MILLIAMP == AMP \div 1000
CENTIAMP == AMP \div 100
MAX_CURRENT == 23 * AMP
\* A/min in hundredths: the spin box has two decimals
MAX_RAMP_RATE == 100

Abs(x) == IF x < 0 THEN -x ELSE x
Min(a, b) == IF a <= b THEN a ELSE b
Max(a, b) == IF a >= b THEN a ELSE b
Sign(x) == IF x > 0 THEN 1 ELSE IF x < 0 THEN -1 ELSE 0

\* float division a / n for n > 0, rounded to the nearest grid point
FloatDiv(a, n) == Sign(a) * ((Abs(a) + (n \div 2)) \div n)

\* f"{v:.3f}" followed by float(): the value rounded to 0.001 A (v >= 0)
Format3(v) == ((v + (MILLIAMP \div 2)) \div MILLIAMP) * MILLIAMP

InRange(value) == 0 <= value /\ value <= MAX_CURRENT

\* ========================================================================
\* Part I - IonizerCurrentControl
\* ========================================================================
VARIABLES
    pc,              \* "init" (inside __init__, before the failsafe load), "run",
                     \* "closed" (closeEvent accepted), "crashed" (unhandled exception)
    current_value,   \* self.current_value
    target_current,  \* self.target_current
    ramp_active,     \* self.ramp_active
    ramp_timer,      \* self.ramp_timer: "none" (no attribute yet), "stopped", "running"
    ramp_steps,      \* self.ramp_steps
    ramp_step_size,  \* self.ramp_step_size
    ramp_rate,       \* start_ramp's local ramp_rate of the latest ramp (A/min * 100)
    ramp_initial,    \* start_ramp's local current: the value read by get_current()
    ramps,           \* number of ramps started so far
    failsafe_file,   \* self.failsafe_file (a path)
    files,           \* the file system: path -> [exists, text]
    hw,              \* the OPC UA node Out_Cal_Ionisierer
    last_written,    \* the value of the latest node.set_value that succeeded (0 before any)
    last_call,       \* the set_current call of the latest handler that acted: caller, outcome, value
    status_label,    \* self.status_label
    indicator        \* self.status_indicator colour

ionVars == <<pc, current_value, target_current, ramp_active, ramp_timer, ramp_steps,
             ramp_step_size, ramp_rate, ramp_initial, ramps,
             failsafe_file, files, hw, last_written, last_call, status_label, indicator>>

\* state of Part II (StepperMotorController, SequenceWorker)
VARIABLES
    position_sequence,  \* self.position_sequence of the controller
    sequence_worker,    \* self.sequence_worker: 0 (no attribute) or the latest worker
    ui_pc,              \* UI thread: "idle", or blocked in send_command for "t 0"
    w_pc,               \* per worker: position of run()
    w_running,          \* per worker: self._running
    w_sequence,         \* per worker: self.sequence (the copied list)
    w_idx,              \* per worker: idx of the for loop (1-based)
    w_initial,          \* per worker: initial_count
    w_remaining,        \* per worker: remaining of the time dwell
    w_finished,         \* per worker: the values emitted on the finished signal
    sock_out,           \* bytes written to the shared socket, not yet read by the drive
    sock_in,            \* responses of the drive, not yet read by a recv()
    dev_target,         \* drive register 0xca
    dev_pos,            \* drive register 0x30
    dev_moving,         \* drive: a move is in progress
    file_count,         \* len(glob.glob(data_path))
    sock_closed,        \* closeEvent has closed the socket and the window
    w_emitted,          \* per worker: the status changes and outcome it has emitted, in order
    w_shares            \* per worker: self.sequence is the controller's own list object

stepVars == <<position_sequence, sequence_worker, ui_pc, w_pc, w_running, w_sequence, w_idx,
              w_initial, w_remaining, w_finished, sock_out, sock_in,
              dev_target, dev_pos, dev_moving, file_count, sock_closed, w_emitted, w_shares>>

\* state of Part III (IonizerMaintenanceControl)
VARIABLES
    m_client,   \* self.client is a connected Client (FALSE: None)
    m_nodes,    \* the Digital_Out nodes of the PLC
    m_last      \* the latest node.set_value attempt: handler, node, value, outcome

maintVars == <<m_client, m_nodes, m_last>>

\* state of Part IV (a ramp in double precision)
VARIABLES
    d_pc,       \* "input" (before start_ramp), "ramping", "complete"
    d_current,  \* self.current_value as a double
    d_target,   \* self.target_current as a double
    d_step,     \* self.ramp_step_size as a double
    d_steps,    \* self.ramp_steps
    d_ticks     \* number of update_ramp calls of the ramp that wrote a value

dblVars == <<d_pc, d_current, d_target, d_step, d_steps, d_ticks>>

\* state of Part IV-b (DeltaMagnetController)
VARIABLES
    magnet      \* the magnet panel: its fields, the supply's socket and the files of
                \* the data path; MagnetOff while the panel is not started

Paths == {"home", "alt"}
NoFile == [exists |-> FALSE, text |-> <<>>]
FileOf(v) == [exists |-> TRUE, text |-> <<v>>]

\* what the failsafe file may hold when the panel starts
HomeFiles == {NoFile, [exists |-> TRUE, text |-> <<>>], FileOf(CENTIAMP \div 2),
              FileOf(MAX_CURRENT), FileOf(MAX_CURRENT + MILLIAMP)}
AltFiles == {FileOf((CENTIAMP \div 2) + (20 * U))}
\* what the setpoint node may hold when the panel starts
HwInit == {0, CENTIAMP \div 2}
\* values of target_input (0 .. MAX_CURRENT, two decimals)
TargetInputs == {0, CENTIAMP, MAX_CURRENT}
\* values of ramp_rate_input (0.01 .. MAX_RAMP_RATE, two decimals)
RateInputs == {MAX_RAMP_RATE, MAX_RAMP_RATE \div 2}
\* readback In_Cal_Ionisierer minus setpoint Out_Cal_Ionisierer
ReadbackOffsets == {0, MILLIAMP}

IonInit ==
    /\ pc = "init"
    /\ current_value = 0
    /\ target_current = 0
    /\ ramp_active = FALSE
    /\ ramp_timer = "none"
    /\ ramp_steps = 0
    /\ ramp_step_size = 0
    /\ ramp_rate = 0
    /\ ramp_initial = 0
    /\ ramps = 0
    /\ failsafe_file = "home"
    /\ \E h \in HomeFiles, a \in AltFiles : files = [p \in Paths |-> IF p = "home" THEN h ELSE a]
    /\ hw \in HwInit
    /\ last_written = 0
    /\ last_call = [by |-> "none", ramping |-> FALSE, result |-> "none", value |-> 0]
    /\ status_label = "connected"
    /\ indicator = "gray"

\* get_current(): None (modelled as <<>>) on a read error, else <<readback>>
get_current(rd_ok, offset) == IF rd_ok THEN <<hw + offset>> ELSE <<>>

\* float(f.read().strip()): <<value>>, or <<>> for ValueError
ParseFloat(text) == IF Len(text) = 1 THEN <<text[1]>> ELSE <<>>

\* open(path, 'w') ; f.write(f"{v:.3f}")
WriteFile_append(fs, path, v) ==
    [fs EXCEPT ![path] = [exists |-> TRUE, text |-> Append(@.text, Format3(v))]]

WriteFile(fs, path, v) == [fs EXCEPT ![path] = FileOf(Format3(v))]

\* save_failsafe_automatic with self.current_value = v
save_failsafe_automatic(fs, v) == WriteFile(fs, failsafe_file, v)

\* no set_current call in the latest handler
NoCall == [by |-> "none", ramping |-> FALSE, result |-> "none", value |-> 0]

\* the handler that calls set_current, and self.ramp_active when that handler began
Caller(name) == [name |-> name, ramping |-> ramp_active]

\* set_current(value) entered with self.current_value = cur, called by `by`;
\* hw_ok: node.set_value does not raise.  The result holds the return value and
\* the state the call leaves.
set_current_assigns_first(cur, value, hw_ok, by) ==
    IF ~InRange(value)
    THEN [ret |-> FALSE, hw |-> hw, current_value |-> cur, files |-> files,
          last_written |-> last_written, status |-> "range_error",
          last_call |-> [by |-> by.name, ramping |-> by.ramping, result |-> "rejected",
                        value |-> value]]
    ELSE IF hw_ok
    THEN [ret |-> TRUE, hw |-> value, current_value |-> value,
          files |-> save_failsafe_automatic(files, value),
          last_written |-> value, status |-> "same",
          last_call |-> [by |-> by.name, ramping |-> by.ramping, result |-> "ok",
                        value |-> value]]
    ELSE [ret |-> FALSE, hw |-> hw, current_value |-> value, files |-> files,
          last_written |-> last_written, status |-> "write_error",
          last_call |-> [by |-> by.name, ramping |-> by.ramping, result |-> "failed",
                        value |-> value]]

set_current_unguarded(cur, value, hw_ok, by) ==
    IF hw_ok
    THEN [ret |-> TRUE, hw |-> value, current_value |-> value,
          files |-> save_failsafe_automatic(files, value),
          last_written |-> value, status |-> "same",
          last_call |-> [by |-> by.name, ramping |-> by.ramping, result |-> "ok",
                        value |-> value]]
    ELSE [ret |-> FALSE, hw |-> hw, current_value |-> cur, files |-> files,
          last_written |-> last_written, status |-> "write_error",
          last_call |-> [by |-> by.name, ramping |-> by.ramping, result |-> "failed",
                        value |-> value]]

set_current(cur, value, hw_ok, by) ==
    IF ~InRange(value)
    THEN [ret |-> FALSE, hw |-> hw, current_value |-> cur, files |-> files,
          last_written |-> last_written, status |-> "range_error",
          last_call |-> [by |-> by.name, ramping |-> by.ramping, result |-> "rejected",
                        value |-> value]]
    ELSE IF hw_ok
    THEN [ret |-> TRUE, hw |-> value, current_value |-> value,
          files |-> save_failsafe_automatic(files, value),
          last_written |-> value, status |-> "same",
          last_call |-> [by |-> by.name, ramping |-> by.ramping, result |-> "ok",
                        value |-> value]]
    ELSE [ret |-> FALSE, hw |-> hw, current_value |-> cur, files |-> files,
          last_written |-> last_written, status |-> "write_error",
          last_call |-> [by |-> by.name, ramping |-> by.ramping, result |-> "failed",
                        value |-> value]]

\* the part of the state set_current leaves behind
Apply(r) ==
    /\ hw' = r.hw
    /\ current_value' = r.current_value
    /\ files' = r.files
    /\ last_written' = r.last_written
    /\ last_call' = r.last_call

\* a handler that does not call set_current
NoWrite == UNCHANGED <<hw, current_value, files, last_written>> /\ last_call' = NoCall

\* update_display(): refreshes current_label and target_label, which the model
\* does not hold; the status text stays
update_display(status) == status

Keep(status, old) == IF status = "same" THEN old ELSE status

\* an exception leaves a Qt slot: PyQt either aborts the process or only reports it
Unhandled == pc' \in {"run", "crashed"}

\* the ramp fields stop_ramp() and ramp_complete() work on
RampUi == [ramp_active |-> ramp_active, ramp_timer |-> ramp_timer, indicator |-> indicator,
           status |-> status_label, raised |-> FALSE]

\* stop_ramp() on the fields u; raised: self.ramp_timer does not exist (AttributeError
\* after ramp_active = False)
stop_ramp_ignored(u) == u

stop_ramp_untested(u) ==
    IF u.ramp_timer = "none" THEN [u EXCEPT !.ramp_active = FALSE, !.raised = TRUE]
    ELSE [u EXCEPT !.ramp_active = FALSE, !.ramp_timer = "stopped", !.indicator = "red",
                   !.status = "stopped"]

stop_ramp(u) ==
    IF ~u.ramp_active THEN u
    ELSE IF u.ramp_timer = "none" THEN [u EXCEPT !.ramp_active = FALSE, !.raised = TRUE]
    ELSE [u EXCEPT !.ramp_active = FALSE, !.ramp_timer = "stopped", !.indicator = "red",
                   !.status = "stopped"]

\* ramp_complete() on the fields u
ramp_complete(u) ==
    [u EXCEPT !.ramp_active = FALSE, !.ramp_timer = "stopped", !.indicator = "green",
              !.status = "complete"]

\* the ramp fields a handler leaves
ApplyRamp(u) ==
    /\ ramp_active' = u.ramp_active
    /\ ramp_timer' = u.ramp_timer
    /\ indicator' = u.indicator

\* create_default_failsafe(): current_value = 0.0 and the file holds "0.0"
create_default_failsafe ==
    /\ current_value' = 0
    /\ files' = [files EXCEPT ![failsafe_file] = FileOf(0)]
    /\ last_call' = NoCall
    /\ UNCHANGED <<hw, last_written>>

\* load_failsafe_with_confirmation(): if reply == QMessageBox.Yes
LoadConfirmed_unasked(reply) == TRUE

LoadConfirmed(reply) == reply

\* __init__ from load_failsafe_with_confirmation() on: the failsafe load and the
\* first update_display().  reply: the operator's answer to 'Confirm Load'.
LoadFailsafe(reply, hw_ok) ==
    /\ pc = "init"
    /\ pc' = "run"
    /\ LET f == files[failsafe_file]
           parsed == ParseFloat(f.text)
       IN  IF ~f.exists \/ parsed = <<>> \/ ~InRange(parsed[1])
           THEN /\ create_default_failsafe
                /\ status_label' = update_display("created_failsafe")
           ELSE IF LoadConfirmed(reply)
           THEN LET r == set_current(parsed[1], parsed[1], hw_ok, Caller("failsafe"))
                IN  /\ Apply(r)
                    /\ status_label' = update_display(IF r.ret THEN "loaded"
                                                       ELSE Keep(r.status, status_label))
           ELSE /\ NoWrite
                /\ status_label' = update_display("load_cancelled")
    /\ UNCHANGED <<target_current, ramp_active, ramp_timer, ramp_steps, ramp_step_size,
                   ramp_rate, ramp_initial, ramps, failsafe_file, indicator>>
    /\ UNCHANGED stepVars
    /\ UNCHANGED maintVars
    /\ UNCHANGED dblVars
    /\ UNCHANGED magnet

\* number of update_ramp calls a ramp from c needs to reach target t in steps of step
RampTicks(c, t, step) ==
    IF step = 0 THEN 0
    ELSE IF (step > 0 /\ c >= t) \/ (step < 0 /\ c <= t) THEN 1
    ELSE (Abs(t - c) + Abs(step) - 1) \div Abs(step)

\* int(ramp_time / 100) with ramp_time = abs(delta) / ramp_rate * 60 * 1000
RampSteps(delta, rate) == Abs(delta) \div (rate * U)

\* "Range guard on target": not 0 <= self.target_current <= self.MAX_CURRENT
TargetRejected_above_only(t) == t > MAX_CURRENT

TargetRejected(t) == ~InRange(t)

\* "if delta == 0": the node already reads the target
AtTarget_never(delta) == FALSE

AtTarget(delta) == delta = 0

\* start_ramp(), reached through toggle_ramp() while no ramp is active.
\* t: target_input.value(), rate: ramp_rate_input.value(), rd_ok/offset: get_current()
StartRamp(t, rate, rd_ok, offset) ==
    /\ pc = "run"
    /\ ~ramp_active
    /\ ramps < MaxRamps
    /\ target_current' = t
    /\ NoWrite
    /\ LET current == get_current(rd_ok, offset)
           delta == t - current[1]
           n == RampSteps(delta, rate)
       IN  IF TargetRejected(t)
           THEN UNCHANGED <<pc, ramp_active, ramp_timer, ramp_steps, ramp_step_size, ramp_rate,
                            ramp_initial, ramps, status_label, indicator>>
           ELSE IF current = <<>>
           THEN /\ status_label' = "read_error"
                /\ UNCHANGED <<pc, ramp_active, ramp_timer, ramp_steps, ramp_step_size, ramp_rate,
                               ramp_initial, ramps, indicator>>
           ELSE IF AtTarget(delta)
           THEN UNCHANGED <<pc, ramp_active, ramp_timer, ramp_steps, ramp_step_size, ramp_rate,
                            ramp_initial, ramps, status_label, indicator>>
           ELSE IF rate = 0
           THEN \* abs(delta) / ramp_rate raises ZeroDivisionError
                /\ Unhandled
                /\ UNCHANGED <<ramp_active, ramp_timer, ramp_steps, ramp_step_size, ramp_rate,
                               ramp_initial, ramps, status_label, indicator>>
           ELSE /\ ramp_active' = TRUE
                /\ indicator' = "yellow"
                /\ status_label' = "ramping"
                /\ ramp_rate' = rate
                /\ ramp_initial' = current[1]
                /\ ramps' = ramps + 1
                /\ ramp_steps' = n
                /\ IF n = 0
                   THEN \* delta / self.ramp_steps raises ZeroDivisionError
                        /\ Unhandled
                        /\ UNCHANGED <<ramp_step_size, ramp_timer>>
                   ELSE \* exploration bound: the ramp is short
                        /\ n <= MaxRampSteps
                        /\ RampTicks(current_value, t, FloatDiv(delta, n)) <= MaxRampSteps
                        /\ ramp_step_size' = FloatDiv(delta, n)
                        /\ ramp_timer' = "running"
                        /\ pc' = pc
    /\ UNCHANGED failsafe_file
    /\ UNCHANGED stepVars
    /\ UNCHANGED maintVars
    /\ UNCHANGED dblVars
    /\ UNCHANGED magnet

\* update_ramp() returns at once
update_ramp_returns == ~ramp_active

\* "Snap to target when crossing it"
Crosses(new_current) ==
    \/ (ramp_step_size > 0 /\ new_current >= target_current)
    \/ (ramp_step_size < 0 /\ new_current <= target_current)

\* update_ramp(): one timeout of a ramp timer
update_ramp(hw_ok) ==
    IF update_ramp_returns
    THEN /\ NoWrite
         /\ UNCHANGED <<ramp_active, ramp_timer, indicator, status_label>>
    ELSE LET new_current == current_value + ramp_step_size
             snap == Crosses(new_current)
             value == IF snap THEN target_current ELSE new_current
             completed == IF snap THEN ramp_complete(RampUi) ELSE RampUi
             r == set_current(current_value, value, hw_ok, Caller("ramp"))
             u == IF r.ret THEN [completed EXCEPT !.status = update_display(@)]
                  ELSE stop_ramp([completed EXCEPT !.status = Keep(r.status, @)])
         IN  /\ Apply(r)
             /\ ApplyRamp(u)
             /\ status_label' = u.status

\* the running timer fires
Tick(hw_ok) ==
    /\ pc = "run"
    /\ ramp_timer = "running"
    /\ update_ramp(hw_ok)
    /\ UNCHANGED <<pc, target_current, ramp_steps, ramp_step_size, ramp_rate, ramp_initial,
                   ramps, failsafe_file>>
    /\ UNCHANGED stepVars
    /\ UNCHANGED maintVars
    /\ UNCHANGED dblVars
    /\ UNCHANGED magnet

\* toggle_ramp() while a ramp is active: stop_ramp()
StopRamp ==
    /\ pc = "run"
    /\ ramp_active
    /\ LET u == stop_ramp(RampUi)
       IN  /\ ApplyRamp(u)
           /\ status_label' = u.status
           /\ IF u.raised THEN Unhandled ELSE pc' = pc
    /\ NoWrite
    /\ UNCHANGED <<target_current, ramp_steps, ramp_step_size, ramp_rate, ramp_initial, ramps,
                   failsafe_file>>
    /\ UNCHANGED stepVars
    /\ UNCHANGED maintVars
    /\ UNCHANGED dblVars
    /\ UNCHANGED magnet

\* QMessageBox.question(...) == QMessageBox.Yes
Yes_assumed(reply) == TRUE

Yes(reply) == reply

\* emergency_stop(): reply is the operator's answer to the confirmation
EmergencyStop(reply, hw_ok) ==
    /\ pc = "run"
    /\ IF ~Yes(reply)
       THEN UNCHANGED ionVars
       ELSE LET stopped == stop_ramp(RampUi)
                r == set_current(current_value, 0, hw_ok, Caller("estop"))
                u == IF r.ret THEN [stopped EXCEPT !.status = update_display("estop"),
                                                   !.indicator = "red"]
                     ELSE [stopped EXCEPT !.status = Keep(r.status, @)]
            IN  IF stopped.raised
                THEN \* stop_ramp() raised: set_current(0.0) is not reached
                     /\ ApplyRamp(stopped)
                     /\ status_label' = stopped.status
                     /\ NoWrite
                     /\ Unhandled
                ELSE /\ Apply(r)
                     /\ ApplyRamp(u)
                     /\ status_label' = u.status
                     /\ pc' = pc
    /\ UNCHANGED <<target_current, ramp_steps, ramp_step_size, ramp_rate, ramp_initial, ramps,
                   failsafe_file>>
    /\ UNCHANGED stepVars
    /\ UNCHANGED maintVars
    /\ UNCHANGED dblVars
    /\ UNCHANGED magnet

\* load_from_file(): path chosen in the file dialog, reply to 'Confirm Load'
LoadFromFile(path, reply, hw_ok) ==
    /\ pc = "run"
    /\ files[path].exists
    /\ LET parsed == ParseFloat(files[path].text)
       IN  IF parsed = <<>> \/ ~InRange(parsed[1]) \/ ~reply
           THEN UNCHANGED <<hw, current_value, files, last_written, last_call, failsafe_file,
                            status_label>>
           ELSE LET r == set_current(current_value, parsed[1], hw_ok, Caller("file"))
                IN  /\ Apply(r)
                    /\ failsafe_file' = IF r.ret THEN path ELSE failsafe_file
                    /\ status_label' = IF r.ret THEN "loaded_file" ELSE Keep(r.status, status_label)
                    \* exploration bound: a ramp continued from the loaded value stays short
                    /\ ramp_active =>
                         RampTicks(r.current_value, target_current, ramp_step_size) <= MaxRampSteps
    /\ UNCHANGED <<pc, target_current, ramp_active, ramp_timer, ramp_steps, ramp_step_size,
                   ramp_rate, ramp_initial, ramps, indicator>>
    /\ UNCHANGED stepVars
    /\ UNCHANGED maintVars
    /\ UNCHANGED dblVars
    /\ UNCHANGED magnet

\* closeEvent(): reply answers 'Really quit?' when a ramp is active
CloseEvent(reply) ==
    /\ pc = "run"
    /\ IF ramp_active /\ ~reply
       THEN UNCHANGED <<pc, files, last_call>>
       ELSE /\ files' = save_failsafe_automatic(files, current_value)
            /\ pc' = "closed"
            /\ last_call' = NoCall
    /\ UNCHANGED <<current_value, target_current, ramp_active, ramp_timer, ramp_steps,
                   ramp_step_size, ramp_rate, ramp_initial, ramps, failsafe_file,
                   hw, last_written, status_label, indicator>>
    /\ UNCHANGED stepVars
    /\ UNCHANGED maintVars
    /\ UNCHANGED dblVars
    /\ UNCHANGED magnet

\* outcomes of node.set_value worth telling apart: after the answer No it is not called
Outcomes(reply) == IF reply THEN BOOLEAN ELSE {TRUE}

IonNext ==
    \/ \E reply \in BOOLEAN : \E hw_ok \in Outcomes(reply) : LoadFailsafe(reply, hw_ok)
    \/ \E t \in TargetInputs, rate \in RateInputs, rd_ok \in BOOLEAN, offset \in ReadbackOffsets :
          StartRamp(t, rate, rd_ok, offset)
    \/ \E hw_ok \in BOOLEAN : Tick(hw_ok)
    \/ StopRamp
    \/ \E reply \in BOOLEAN : \E hw_ok \in Outcomes(reply) : EmergencyStop(reply, hw_ok)
    \/ \E path \in Paths, reply \in BOOLEAN :
          \E hw_ok \in Outcomes(reply) : LoadFromFile(path, reply, hw_ok)
    \/ \E reply \in (IF ramp_active THEN BOOLEAN ELSE {TRUE}) : CloseEvent(reply)

\* ========================================================================
\* Part II - StepperMotorController and SequenceWorker
\* ========================================================================
Workers == 1 .. MaxWorkers
UI == 0

\* the steps add_to_sequence can append: position, trigger mode, trigger value
StepInputs == {[position |-> 100, trigger_mode |-> "time", trigger_value |-> 1],
               [position |-> 200, trigger_mode |-> "files", trigger_value |-> 1]}

\* the lists of SeqLen steps a session starts a run with: file-count and time waits
\* in turn, positions in turn, the file counts 1 and 2, the time 2 s
TimeStep == [position |-> 100, trigger_mode |-> "time", trigger_value |-> 2]
FileStep(n) == [position |-> 200, trigger_mode |-> "files", trigger_value |-> n]
SeqLists == {[i \in 1 .. SeqLen |-> IF i % 2 = 1 THEN FileStep(1) ELSE TimeStep],
             [i \in 1 .. SeqLen |-> IF i % 2 = 1 THEN TimeStep ELSE FileStep(2)]}

NoResponse == [text |-> "none", pos |-> 0]
Ok == [text |-> "ok", pos |-> 0]

\* what a worker emits: update_status while it moves to step idx ("Moving..."),
\* update_status while it measures at step idx, and finished(value); idx counts from 0
Moving(idx) == [kind |-> "Moving", idx |-> idx, ok |-> TRUE]
Dwelling(idx) == [kind |-> "Dwelling", idx |-> idx, ok |-> TRUE]
Finished(value) == [kind |-> "Finished", idx |-> 0, ok |-> value]

\* log followed by the emission e; the repeated status texts of one phase count once
Emit(log, e) == IF log # <<>> /\ log[Len(log)] = e THEN log ELSE Append(log, e)

StepInit ==
    /\ position_sequence = <<>>
    /\ sequence_worker = 0
    /\ ui_pc = "idle"
    /\ w_pc = [w \in Workers |-> "none"]
    /\ w_running = [w \in Workers |-> TRUE]
    /\ w_sequence = [w \in Workers |-> <<>>]
    /\ w_idx = [w \in Workers |-> 0]
    /\ w_initial = [w \in Workers |-> 0]
    /\ w_remaining = [w \in Workers |-> 0]
    /\ w_finished = [w \in Workers |-> <<>>]
    /\ sock_out = <<>>
    /\ sock_in = <<>>
    /\ dev_target = 0
    /\ dev_pos = 0
    /\ dev_moving = FALSE
    /\ file_count = 0
    /\ sock_closed = FALSE
    /\ w_emitted = [w \in Workers |-> <<>>]
    /\ w_shares = [w \in Workers |-> FALSE]

\* QThread.isRunning(): from start() until run() has returned
isRunning(w) == w_pc[w] \notin {"none", "done"}

\* a thread has written a command and has not yet returned from recv()
InFlight(w) == w_pc[w] \in {"recv_set", "recv_go", "recv_get"}

\* sock.sendall((command + "\n").encode('ascii')) by thread `from`
sendall(cmd, arg, from) ==
    /\ Len(sock_out) + Len(sock_in) < MaxPending
    /\ sock_out' = Append(sock_out, [cmd |-> cmd, arg |-> arg])

\* sock.recv(1024).decode('ascii').strip(): everything buffered is returned at once;
\* two buffered lines give a text that is neither "ok" nor one "v <pos>"
recv_text == IF Len(sock_in) = 1 THEN [text |-> sock_in[1].text, pos |-> sock_in[1].pos]
             ELSE [text |-> "garbled", pos |-> 0]

\* add_to_sequence(): append the selected step
add_to_sequence(step) ==
    /\ ui_pc = "idle"
    /\ ~sock_closed
    /\ Len(position_sequence) < MaxSeqLen
    /\ position_sequence' = Append(position_sequence, step)
    /\ w_sequence' = [w \in Workers |-> IF w_shares[w] THEN Append(w_sequence[w], step)
                                        ELSE w_sequence[w]]
    /\ UNCHANGED <<sequence_worker, ui_pc, w_pc, w_running, w_idx, w_initial, w_remaining, w_finished, sock_out, sock_in, dev_target, dev_pos,
                   dev_moving, file_count>>
    /\ UNCHANGED <<sock_closed, w_emitted, w_shares>>
    /\ UNCHANGED ionVars
    /\ UNCHANGED maintVars
    /\ UNCHANGED dblVars
    /\ UNCHANGED magnet

\* clear_sequence()
clear_sequence ==
    /\ ui_pc = "idle"
    /\ ~sock_closed
    /\ position_sequence # <<>>
    /\ position_sequence' = <<>>
    /\ w_shares' = [w \in Workers |-> FALSE]
    /\ UNCHANGED <<sequence_worker, ui_pc, w_pc, w_running, w_sequence, w_idx, w_initial, w_remaining, w_finished, sock_out, sock_in, dev_target, dev_pos,
                   dev_moving, file_count>>
    /\ UNCHANGED <<sock_closed, w_emitted>>
    /\ UNCHANGED ionVars
    /\ UNCHANGED maintVars
    /\ UNCHANGED dblVars
    /\ UNCHANGED magnet

\* whether run_sequence hands the worker the controller's own list object:
\* self.position_sequence.copy() is a new list
passes_own_list == FALSE

\* run_sequence(): if not self.position_sequence: log and return
EmptyList_accepted == FALSE

EmptyList == position_sequence = <<>>

\* run_sequence(): a new SequenceWorker on a copy of the list, started at once;
\* w is the worker object created by this call
run_sequence(w) ==
    /\ ui_pc = "idle"
    /\ ~sock_closed
    /\ ~EmptyList
    /\ w_pc[w] = "none"
    /\ \A v \in Workers : v < w => w_pc[v] # "none"
    /\ sequence_worker' = w
    /\ w_sequence' = [w_sequence EXCEPT ![w] = position_sequence]
    /\ w_shares' = [w_shares EXCEPT ![w] = passes_own_list]
    /\ w_running' = [w_running EXCEPT ![w] = TRUE]
    /\ w_idx' = [w_idx EXCEPT ![w] = 1]
    /\ w_pc' = [w_pc EXCEPT ![w] = "for"]
    /\ UNCHANGED <<position_sequence, ui_pc, w_initial, w_remaining, w_finished,
                   sock_out, sock_in, dev_target, dev_pos, dev_moving, file_count>>
    /\ UNCHANGED <<sock_closed, w_emitted>>
    /\ UNCHANGED ionVars
    /\ UNCHANGED maintVars
    /\ UNCHANGED dblVars
    /\ UNCHANGED magnet

\* SequenceWorker.stop()
stop(w) == w_running' = [w_running EXCEPT ![w] = FALSE]

\* stop_movement() up to the sendall of "t 0"
stop_movement ==
    /\ ui_pc = "idle"
    /\ ~sock_closed
    /\ IF sequence_worker # 0 /\ isRunning(sequence_worker)
       THEN stop(sequence_worker)
       ELSE UNCHANGED w_running
    /\ sendall("stop", 0, UI)
    /\ ui_pc' = "recv_stop"
    /\ UNCHANGED <<position_sequence, sequence_worker, w_pc, w_sequence, w_idx, w_initial, w_remaining, w_finished, sock_in, dev_target, dev_pos, dev_moving,
                   file_count>>
    /\ UNCHANGED <<sock_closed, w_emitted, w_shares>>
    /\ UNCHANGED ionVars
    /\ UNCHANGED maintVars
    /\ UNCHANGED dblVars
    /\ UNCHANGED magnet

\* the recv() of the controller's send_command: a response, or socket.timeout
ui_recv ==
    /\ ui_pc \in {"recv_stop", "recv_home"}
    /\ ui_pc' = "idle"
    /\ sock_in' = <<>>
    /\ UNCHANGED <<position_sequence, sequence_worker, w_pc, w_running, w_sequence, w_idx,
                   w_initial, w_remaining, w_finished, sock_out, dev_target, dev_pos,
                   dev_moving, file_count>>
    /\ UNCHANGED <<sock_closed, w_emitted, w_shares>>
    /\ UNCHANGED ionVars
    /\ UNCHANGED maintVars
    /\ UNCHANGED dblVars
    /\ UNCHANGED magnet

\* go_home() up to the sendall of "t 2"; no look at a running sequence
go_home ==
    /\ ui_pc = "idle"
    /\ ~sock_closed
    /\ sendall("home", 0, UI)
    /\ ui_pc' = "recv_home"
    /\ UNCHANGED <<position_sequence, sequence_worker, w_pc, w_running, w_sequence, w_idx,
                   w_initial, w_remaining, w_finished, sock_in, dev_target, dev_pos,
                   dev_moving, file_count>>
    /\ UNCHANGED <<sock_closed, w_emitted, w_shares>>
    /\ UNCHANGED ionVars
    /\ UNCHANGED maintVars
    /\ UNCHANGED dblVars
    /\ UNCHANGED magnet

\* closeEvent(): stop the worker if it runs, close the socket
closeEvent ==
    /\ ui_pc = "idle"
    /\ ~sock_closed
    /\ IF sequence_worker # 0 /\ isRunning(sequence_worker)
       THEN stop(sequence_worker)
       ELSE UNCHANGED w_running
    /\ sock_closed' = TRUE
    /\ UNCHANGED <<position_sequence, sequence_worker, ui_pc, w_pc, w_sequence, w_idx,
                   w_initial, w_remaining, w_finished, sock_out, sock_in, dev_target,
                   dev_pos, dev_moving, file_count>>
    /\ UNCHANGED <<w_emitted, w_shares>>
    /\ UNCHANGED ionVars
    /\ UNCHANGED maintVars
    /\ UNCHANGED dblVars
    /\ UNCHANGED magnet

\* self.finished.emit(value) followed by the end of run(), where its locals end
EmitFinished(w, value) ==
    /\ w_finished' = [w_finished EXCEPT ![w] = Append(@, value)]
    /\ w_emitted' = [w_emitted EXCEPT ![w] = Append(@, Finished(value))]
    /\ w_pc' = [w_pc EXCEPT ![w] = "done"]
    /\ w_idx' = [w_idx EXCEPT ![w] = 0]
    /\ w_initial' = [w_initial EXCEPT ![w] = 0]
    /\ w_remaining' = [w_remaining EXCEPT ![w] = 0]

Goto(w, label) == w_pc' = [w_pc EXCEPT ![w] = label]

CurrentStep(w) == w_sequence[w][w_idx[w]]

\* for idx, item in enumerate(self.sequence): no item is left
Exhausted_before_last(w) == w_idx[w] >= Len(w_sequence[w])

Exhausted(w) == w_idx[w] > Len(w_sequence[w])

\* run(): head of the for loop
WFor(w) ==
    /\ w_pc[w] = "for"
    /\ IF Exhausted(w) \/ ~w_running[w]
       THEN Goto(w, "emit") /\ UNCHANGED w_emitted
       ELSE /\ Goto(w, "send_set")
            /\ w_emitted' = [w_emitted EXCEPT ![w] = Emit(@, Moving(w_idx[w] - 1))]
    /\ UNCHANGED <<position_sequence, sequence_worker, ui_pc, w_running, w_sequence, w_idx,
                   w_initial, w_remaining, w_finished, sock_out, sock_in, dev_target,
                   dev_pos, dev_moving, file_count>>
    /\ UNCHANGED <<sock_closed, w_shares>>
    /\ UNCHANGED ionVars
    /\ UNCHANGED maintVars
    /\ UNCHANGED dblVars
    /\ UNCHANGED magnet

\* run(): the sendall of a send_command; "set" is s r0xca, "go" is t 1, "get" is g r0x30
WSend(w) ==
    /\ w_pc[w] \in {"send_set", "send_go", "send_get"}
    /\ IF sock_closed
       THEN \* sendall raises on the closed socket; recv is not reached
            UNCHANGED sock_out
       ELSE IF w_pc[w] = "send_set" THEN sendall("set", CurrentStep(w).position, w)
       ELSE IF w_pc[w] = "send_go" THEN sendall("go", 0, w)
       ELSE sendall("get", 0, w)
    /\ IF w_pc[w] = "send_set" THEN Goto(w, "recv_set")
       ELSE IF w_pc[w] = "send_go" THEN Goto(w, "recv_go")
       ELSE Goto(w, "recv_get")
    /\ UNCHANGED <<position_sequence, sequence_worker, ui_pc, w_running, w_sequence, w_idx,
                   w_initial, w_remaining, w_finished, sock_in, dev_target, dev_pos,
                   dev_moving, file_count>>
    /\ UNCHANGED <<sock_closed, w_emitted, w_shares>>
    /\ UNCHANGED ionVars
    /\ UNCHANGED maintVars
    /\ UNCHANGED dblVars
    /\ UNCHANGED magnet

\* what recv() gives the caller: the buffered text, or None after socket.timeout
\* or on the closed socket
Response == IF sock_closed \/ sock_in = <<>> THEN NoResponse ELSE recv_text

\* run(): if response != "ok": self.finished.emit(False); return
Aborts_never(w, response) == FALSE

Aborts(w, response) == w_pc[w] \in {"recv_set", "recv_go"} /\ response # Ok

\* run(): the recv of a send_command and the branch on the response.
\* With nothing buffered the recv ends in socket.timeout and the response is None.
WRecv(w) ==
    /\ InFlight(w)
    /\ LET response == Response
       IN  /\ sock_in' = <<>>
           /\ IF Aborts(w, response)
              THEN EmitFinished(w, FALSE)
              ELSE /\ UNCHANGED <<w_finished, w_idx, w_initial, w_remaining, w_emitted>>
                   /\ IF w_pc[w] = "recv_set" THEN Goto(w, "send_go")
                      ELSE IF w_pc[w] = "recv_go" THEN Goto(w, "poll_first")
                      ELSE IF response.text = "v" /\ response.pos = CurrentStep(w).position
                      THEN Goto(w, "after_move")
                      ELSE Goto(w, "poll_check")
    /\ UNCHANGED <<position_sequence, sequence_worker, ui_pc, w_running, w_sequence,
                   sock_out, dev_target, dev_pos, dev_moving, file_count>>
    /\ UNCHANGED <<sock_closed, w_shares>>
    /\ UNCHANGED ionVars
    /\ UNCHANGED maintVars
    /\ UNCHANGED dblVars
    /\ UNCHANGED magnet

\* the test of self._running at the head of a wait loop: stop() has been called
Stopped_unseen(w) == FALSE

Stopped(w) == ~w_running[w]

\* run(): while time.time() - start_time < 20 and self._running.
\* expired: 20 s have passed; not before the first poll has been made.
WPoll(w, expired) ==
    /\ w_pc[w] \in {"poll_first", "poll_check"}
    /\ expired => w_pc[w] = "poll_check"
    /\ IF expired \/ Stopped(w) THEN Goto(w, "after_move") ELSE Goto(w, "send_get")
    /\ UNCHANGED <<position_sequence, sequence_worker, ui_pc, w_running, w_sequence, w_idx,
                   w_initial, w_remaining, w_finished, sock_out, sock_in, dev_target,
                   dev_pos, dev_moving, file_count>>
    /\ UNCHANGED <<sock_closed, w_emitted, w_shares>>
    /\ UNCHANGED ionVars
    /\ UNCHANGED maintVars
    /\ UNCHANGED dblVars
    /\ UNCHANGED magnet

\* initial_count = self.get_data_count() at the entry of a file-count wait
Baseline_kept(w) == w_initial[w]

Baseline(w) == file_count

\* run(): if not self._running: break, else entry of the measurement phase
WAfterMove(w) ==
    /\ w_pc[w] = "after_move"
    /\ IF ~w_running[w]
       THEN Goto(w, "emit") /\ UNCHANGED <<w_remaining, w_initial, w_emitted>>
       ELSE IF CurrentStep(w).trigger_mode = "time"
       THEN /\ w_remaining' = [w_remaining EXCEPT ![w] = CurrentStep(w).trigger_value]
            /\ Goto(w, "dwell_time")
            /\ UNCHANGED <<w_initial, w_emitted>>
       ELSE /\ w_initial' = [w_initial EXCEPT ![w] = Baseline(w)]
            /\ w_emitted' = [w_emitted EXCEPT ![w] = Emit(@, Dwelling(w_idx[w] - 1))]
            /\ Goto(w, "dwell_files")
            /\ UNCHANGED w_remaining
    /\ UNCHANGED <<position_sequence, sequence_worker, ui_pc, w_running, w_sequence, w_idx,
                   w_finished, sock_out, sock_in, dev_target, dev_pos, dev_moving,
                   file_count>>
    /\ UNCHANGED <<sock_closed, w_shares>>
    /\ UNCHANGED ionVars
    /\ UNCHANGED maintVars
    /\ UNCHANGED dblVars
    /\ UNCHANGED magnet

\* run(): one iteration of for remaining in range(trigger_value, 0, -1)
WDwellTime(w) ==
    /\ w_pc[w] = "dwell_time"
    /\ IF w_remaining[w] = 0 \/ Stopped(w)
       THEN Goto(w, "after_dwell") /\ UNCHANGED <<w_remaining, w_emitted>>
       ELSE /\ w_remaining' = [w_remaining EXCEPT ![w] = @ - 1]
            /\ w_emitted' = [w_emitted EXCEPT ![w] = Emit(@, Dwelling(w_idx[w] - 1))]
            /\ UNCHANGED w_pc
    /\ UNCHANGED <<position_sequence, sequence_worker, ui_pc, w_running, w_sequence, w_idx,
                   w_initial, w_finished, sock_out, sock_in, dev_target, dev_pos,
                   dev_moving, file_count>>
    /\ UNCHANGED <<sock_closed, w_shares>>
    /\ UNCHANGED ionVars
    /\ UNCHANGED maintVars
    /\ UNCHANGED dblVars
    /\ UNCHANGED magnet

\* if current_count > initial_count: change = ...; if change >= trigger_value: break
FilesSatisfied_by_any(w) == file_count > w_initial[w]

FilesSatisfied(w) ==
    file_count > w_initial[w] /\ file_count - w_initial[w] >= CurrentStep(w).trigger_value

\* run(): one iteration of the file-count wait, leaving the loop when it ends
WDwellFiles(w) ==
    /\ w_pc[w] = "dwell_files"
    /\ \/ Stopped(w)
       \/ FilesSatisfied(w)
    /\ Goto(w, "after_dwell")
    /\ UNCHANGED <<position_sequence, sequence_worker, ui_pc, w_running, w_sequence, w_idx,
                   w_initial, w_remaining, w_finished, sock_out, sock_in, dev_target,
                   dev_pos, dev_moving, file_count>>
    /\ UNCHANGED <<sock_closed, w_emitted, w_shares>>
    /\ UNCHANGED ionVars
    /\ UNCHANGED maintVars
    /\ UNCHANGED dblVars
    /\ UNCHANGED magnet

\* for idx, item in enumerate(self.sequence): the item after the current one
NextIndex_skipping(w) == w_idx[w] + 2

NextIndex(w) == w_idx[w] + 1

\* run(): if not self._running: break, else the next step of the for loop
WAfterDwell(w) ==
    /\ w_pc[w] = "after_dwell"
    /\ IF ~w_running[w]
       THEN Goto(w, "emit") /\ UNCHANGED w_idx
       ELSE w_idx' = [w_idx EXCEPT ![w] = NextIndex(w)] /\ Goto(w, "for")
    /\ UNCHANGED <<position_sequence, sequence_worker, ui_pc, w_running, w_sequence,
                   w_initial, w_remaining, w_finished, sock_out, sock_in, dev_target,
                   dev_pos, dev_moving, file_count>>
    /\ UNCHANGED <<sock_closed, w_emitted, w_shares>>
    /\ UNCHANGED ionVars
    /\ UNCHANGED maintVars
    /\ UNCHANGED dblVars
    /\ UNCHANGED magnet

\* on_sequence_complete(success): the line the controller logs for the bool that
\* the finished signal carries
on_sequence_complete(success) ==
    IF success THEN "Sequence completed successfully" ELSE "Sequence stopped"

\* the value of self.finished.emit(self._running) at the end of run()
Outcome_complete(w) == TRUE

Outcome(w) == w_running[w]

\* run(): self.finished.emit(self._running)
WEmit(w) ==
    /\ w_pc[w] = "emit"
    /\ EmitFinished(w, Outcome(w))
    /\ UNCHANGED <<position_sequence, sequence_worker, ui_pc, w_running, w_sequence,
                   sock_out, sock_in, dev_target, dev_pos, dev_moving, file_count>>
    /\ UNCHANGED <<sock_closed, w_shares>>
    /\ UNCHANGED ionVars
    /\ UNCHANGED maintVars
    /\ UNCHANGED dblVars
    /\ UNCHANGED magnet

\* the drive reads one command line and answers it; accepted: it answers "ok"
DriveCommand(accepted) ==
    /\ sock_out # <<>>
    /\ LET c == Head(sock_out)
       IN  /\ sock_out' = Tail(sock_out)
           /\ IF c.cmd = "get"
              THEN /\ sock_in' = Append(sock_in, [text |-> "v", pos |-> dev_pos])
                   /\ UNCHANGED <<dev_target, dev_moving>>
              ELSE IF ~accepted
              THEN /\ sock_in' = Append(sock_in, [text |-> "err", pos |-> 0])
                   /\ UNCHANGED <<dev_target, dev_moving>>
              ELSE /\ sock_in' = Append(sock_in, Ok)
                   /\ dev_target' = IF c.cmd = "set" THEN c.arg
                                    ELSE IF c.cmd = "home" THEN 0 ELSE dev_target
                   /\ dev_moving' = IF c.cmd \in {"go", "home"} THEN TRUE
                                    ELSE IF c.cmd = "stop" THEN FALSE ELSE dev_moving
    /\ UNCHANGED <<position_sequence, sequence_worker, ui_pc, w_pc, w_running, w_sequence, w_idx,
                   w_initial, w_remaining, w_finished, dev_pos, file_count>>
    /\ UNCHANGED <<sock_closed, w_emitted, w_shares>>
    /\ UNCHANGED ionVars
    /\ UNCHANGED maintVars
    /\ UNCHANGED dblVars
    /\ UNCHANGED magnet

\* the motor reaches the commanded position
DriveArrives ==
    /\ dev_moving
    /\ dev_pos' = dev_target
    /\ dev_moving' = FALSE
    /\ UNCHANGED <<position_sequence, sequence_worker, ui_pc, w_pc, w_running, w_sequence, w_idx,
                   w_initial, w_remaining, w_finished, sock_out, sock_in, dev_target,
                   file_count>>
    /\ UNCHANGED <<sock_closed, w_emitted, w_shares>>
    /\ UNCHANGED ionVars
    /\ UNCHANGED maintVars
    /\ UNCHANGED dblVars
    /\ UNCHANGED magnet

\* the measurement writes a new data file
FileAppears ==
    /\ file_count < MaxFiles
    /\ file_count' = file_count + 1
    /\ UNCHANGED <<position_sequence, sequence_worker, ui_pc, w_pc, w_running, w_sequence, w_idx,
                   w_initial, w_remaining, w_finished, sock_out, sock_in, dev_target,
                   dev_pos, dev_moving>>
    /\ UNCHANGED <<sock_closed, w_emitted, w_shares>>
    /\ UNCHANGED ionVars
    /\ UNCHANGED maintVars
    /\ UNCHANGED dblVars
    /\ UNCHANGED magnet

\* the steps of a run; ws: the worker objects run_sequence may create,
\* answers: whether the drive may refuse a command
RunNext(ws, answers) ==
    \/ \E w \in ws : run_sequence(w)
    \/ stop_movement
    \/ ui_recv
    \/ \E w \in ws : WFor(w)
    \/ \E w \in ws : WSend(w)
    \/ \E w \in ws : WRecv(w)
    \/ \E w \in ws, expired \in BOOLEAN : WPoll(w, expired)
    \/ \E w \in ws : WAfterMove(w)
    \/ \E w \in ws : WDwellTime(w)
    \/ \E w \in ws : WDwellFiles(w)
    \/ \E w \in ws : WAfterDwell(w)
    \/ \E w \in ws : WEmit(w)
    \/ \E accepted \in answers : DriveCommand(accepted)
    \/ DriveArrives
    \/ FileAppears

\* the steps of the stepper panel with the editing of the list
StepNext(ws, answers) ==
    \/ \E step \in StepInputs : add_to_sequence(step)
    \/ clear_sequence
    \/ RunNext(ws, answers)

\* ========================================================================
\* Part III - IonizerMaintenanceControl
\* ========================================================================
\* the nodes of self.nodes the model holds: the two behind a confirmation and the
\* pump; wheel and source_valve are written by the same lambda as the pump
MNodes == {"vent", "pump_valve", "pump"}

NoAttempt == [by |-> "none", node |-> "none", state |-> FALSE, result |-> "none"]

MaintInit ==
    /\ m_client = FALSE
    /\ m_nodes \in [MNodes -> BOOLEAN]
    /\ m_last = NoAttempt

\* set_node_state(node_name, state) called by the handler `by`; conn_ok: connect_opc
\* succeeds, hw_ok: node.set_value does not raise
set_node_state(node_name, state, conn_ok, hw_ok, by) ==
    IF ~m_client /\ ~conn_ok
    THEN /\ m_client' = FALSE
         /\ m_last' = [by |-> by, node |-> node_name, state |-> state,
                       result |-> "no_connection"]
         /\ UNCHANGED m_nodes
    ELSE IF hw_ok
    THEN /\ m_client' = TRUE
         /\ m_nodes' = [m_nodes EXCEPT ![node_name] = state]
         /\ m_last' = [by |-> by, node |-> node_name, state |-> state, result |-> "ok"]
    ELSE /\ m_client' = FALSE
         /\ m_last' = [by |-> by, node |-> node_name, state |-> state, result |-> "failed"]
         /\ UNCHANGED m_nodes

\* confirm_start_venting(): reply is the operator's answer to 'Confirm Venting'
confirm_start_venting(reply, conn_ok, hw_ok) ==
    /\ IF Yes(reply)
       THEN set_node_state("vent", TRUE, conn_ok, hw_ok, "confirm_start_venting")
       ELSE UNCHANGED maintVars
    /\ UNCHANGED ionVars
    /\ UNCHANGED stepVars
    /\ UNCHANGED dblVars
    /\ UNCHANGED magnet

\* confirm_open_pump_valve(): reply is the operator's answer to 'Confirm Pump Valve'
confirm_open_pump_valve(reply, conn_ok, hw_ok) ==
    /\ IF Yes(reply)
       THEN set_node_state("pump_valve", TRUE, conn_ok, hw_ok, "confirm_open_pump_valve")
       ELSE UNCHANGED maintVars
    /\ UNCHANGED ionVars
    /\ UNCHANGED stepVars
    /\ UNCHANGED dblVars
    /\ UNCHANGED magnet

\* the buttons connected to lambda: self.set_node_state(name, state): every node to
\* False, and the nodes without a confirmation to True
ButtonWrites == {<<n, FALSE>> : n \in MNodes} \cup {<<"pump", TRUE>>}

Button(write, conn_ok, hw_ok) ==
    /\ write \in ButtonWrites
    /\ set_node_state(write[1], write[2], conn_ok, hw_ok, "button")
    /\ UNCHANGED ionVars
    /\ UNCHANGED stepVars
    /\ UNCHANGED dblVars
    /\ UNCHANGED magnet

\* update_states(): the 1 s monitor; rd_ok: every get_value succeeds.  The indicator
\* colours are not held by the model.
update_states(conn_ok, rd_ok) ==
    /\ m_client' = IF ~m_client /\ ~conn_ok THEN FALSE ELSE rd_ok
    /\ UNCHANGED <<m_nodes, m_last>>
    /\ UNCHANGED ionVars
    /\ UNCHANGED stepVars
    /\ UNCHANGED dblVars
    /\ UNCHANGED magnet

MaintNext ==
    \/ \E reply \in BOOLEAN : \E conn_ok, hw_ok \in Outcomes(reply) :
          confirm_start_venting(reply, conn_ok, hw_ok)
    \/ \E reply \in BOOLEAN : \E conn_ok, hw_ok \in Outcomes(reply) :
          confirm_open_pump_valve(reply, conn_ok, hw_ok)
    \/ \E write \in ButtonWrites, conn_ok \in BOOLEAN, hw_ok \in BOOLEAN :
          Button(write, conn_ok, hw_ok)
    \/ \E conn_ok \in BOOLEAN, rd_ok \in BOOLEAN : update_states(conn_ok, rd_ok)

\* ========================================================================
\* Part IV - a ramp in double precision
\* ========================================================================
\* A double d >= 0 below 16 is held as the integer d * 2^62, written as DLimbs
\* digits of base DBase, most significant first.  Every double from 2^-10 up is
\* such an integer; the doubles of a binade with exponent e >= -10 are the
\* multiples of 2^(e + 10).
DBase == 2048
DLimbs == 6
DZero == [i \in 1 .. DLimbs |-> 0]

RECURSIVE Pow2(_)
Pow2(k) == IF k = 0 THEN 1 ELSE 2 * Pow2(k - 1)

\* floor(log2(x)) for x >= 1
RECURSIVE Log2(_)
Log2(x) == IF x < 2 THEN 0 ELSE 1 + Log2(x \div 2)

\* the double of the whole number k of amperes, 0 <= k < 16
DoubleOf(k) == [i \in 1 .. DLimbs |-> IF i = 1 THEN k * 128 ELSE 0]

\* a >= b
RECURSIVE DGeqFrom(_, _, _)
DGeqFrom(a, b, i) ==
    IF i > DLimbs THEN TRUE
    ELSE IF a[i] # b[i] THEN a[i] > b[i]
    ELSE DGeqFrom(a, b, i + 1)

DGeq(a, b) == DGeqFrom(a, b, 1)

\* the carry into digit i of the exact sum a + b
RECURSIVE DCarry(_, _, _)
DCarry(a, b, i) ==
    IF i > DLimbs THEN 0 ELSE (a[i] + b[i] + DCarry(a, b, i + 1)) \div DBase

\* the exact sum a + b
DSum(a, b) == [i \in 1 .. DLimbs |-> (a[i] + b[i] + DCarry(a, b, i + 1)) % DBase]

\* index of the highest set bit of a # DZero
RECURSIVE DTopBitFrom(_, _)
DTopBitFrom(a, i) ==
    IF a[i] # 0 THEN (11 * (DLimbs - i)) + Log2(a[i]) ELSE DTopBitFrom(a, i + 1)

DTopBit(a) == DTopBitFrom(a, 1)

\* the digits of the number x < DBase * DBase
DSmall(x) == [i \in 1 .. DLimbs |-> IF i = DLimbs THEN x % DBase
                                     ELSE IF i = DLimbs - 1 THEN x \div DBase ELSE 0]

\* round to nearest, ties to even, to the 53 significant bits of a double
DRound_down(a) ==
    IF a = DZero \/ DTopBit(a) <= 52 THEN a
    ELSE LET s == DTopBit(a) - 52
             low == (a[DLimbs - 1] * DBase) + a[DLimbs]
             kept == low - (low % Pow2(s))
         IN  [a EXCEPT ![DLimbs - 1] = kept \div DBase, ![DLimbs] = kept % DBase]

DRound(a) ==
    IF a = DZero \/ DTopBit(a) <= 52 THEN a
    ELSE LET s == DTopBit(a) - 52
             low == (a[DLimbs - 1] * DBase) + a[DLimbs]
             r == low % Pow2(s)
             kept == low - r
             down == [a EXCEPT ![DLimbs - 1] = kept \div DBase, ![DLimbs] = kept % DBase]
             odd == (kept \div Pow2(s)) % 2 = 1
         IN  IF 2 * r > Pow2(s) \/ (2 * r = Pow2(s) /\ odd)
             THEN DSum(down, DSmall(Pow2(s)))
             ELSE down

\* a + b in double precision
DAdd(a, b) == DRound(DSum(a, b))

\* the remainder left after the digits 1 .. i of a have been divided by n
RECURSIVE DRem(_, _, _)
DRem(a, n, i) == IF i = 0 THEN 0 ELSE ((DRem(a, n, i - 1) * DBase) + a[i]) % n

\* a / n in double precision for a whole number n with 0 < n < 2^20 and a
\* quotient in 2^-10 .. 2^-9, where the doubles are the whole multiples of 2^-62
DDiv(a, n) ==
    LET q == [i \in 1 .. DLimbs |-> ((DRem(a, n, i - 1) * DBase) + a[i]) \div n]
        rem == DRem(a, n, DLimbs)
    IN  IF 2 * rem > n \/ (2 * rem = n /\ q[DLimbs] % 2 = 1)
        THEN DSum(q, DSmall(1))
        ELSE q

\* the targets of the ramps followed in double precision, in whole amperes; every
\* ramp starts at 0.0 A with the rate MAX_RAMP_RATE
DblTargets == {10, 5}

DblIdle ==
    /\ d_pc = "input"
    /\ d_current = DZero
    /\ d_target = DZero
    /\ d_step = DZero
    /\ d_steps = 0
    /\ d_ticks = 0

\* start_ramp() with target_input = k A, ramp_rate_input = MAX_RAMP_RATE, the
\* readback and self.current_value at 0.0: delta is the target
start_ramp_double(k) ==
    /\ d_pc = "input"
    /\ d_pc' = "ramping"
    /\ d_target' = DoubleOf(k)
    /\ d_steps' = RampSteps(k * AMP, MAX_RAMP_RATE)
    /\ d_step' = DDiv(DoubleOf(k), RampSteps(k * AMP, MAX_RAMP_RATE))
    /\ DTopBit(d_step') = 52
    /\ UNCHANGED <<d_current, d_ticks>>
    /\ UNCHANGED ionVars
    /\ UNCHANGED stepVars
    /\ UNCHANGED maintVars
    /\ UNCHANGED magnet

\* update_ramp() with a write that succeeds, for a ramp upwards
update_ramp_double ==
    /\ d_pc = "ramping"
    /\ LET new_current == DAdd(d_current, d_step)
       IN  IF DGeq(new_current, d_target)
           THEN d_current' = d_target /\ d_pc' = "complete"
           ELSE d_current' = new_current /\ d_pc' = "ramping"
    /\ d_ticks' = d_ticks + 1
    /\ UNCHANGED <<d_target, d_step, d_steps>>
    /\ UNCHANGED ionVars
    /\ UNCHANGED stepVars
    /\ UNCHANGED maintVars
    /\ UNCHANGED magnet

DblNext ==
    \/ \E k \in DblTargets : start_ramp_double(k)
    \/ update_ramp_double

\* ========================================================================
\* Part IV-b - DeltaMagnetController (Magnet_mit_Gaussmeter.py)
\* ========================================================================
\* currents are held in units of 0.0001 A (the spin boxes have four decimals), the
\* slider in units of 0.001 A, voltages in units of 0.001 V
MAG_AMP == 10000
multiplier == 1000

MagnetOff == [pc |-> "off"]

\* one line written to the supply: cmd is "sour:curr", "sour:volt" or "raw" (the
\* text closeEvent sends after the answer No), by the handler that sent it
Command(cmd, val, by) == [cmd |-> cmd, val |-> val, by |-> by]

\* send_command(cmd): sendall on the socket; on a socket that is not connected
\* the exception is caught and nothing reaches the supply
send_command(m, c) == IF m.sock THEN [m EXCEPT !.sent = Append(@, c)] ELSE m

\* the two lines every setpoint write consists of
SendSetpoint(m, current, voltage, by) ==
    send_command(send_command(m, Command("sour:curr", current, by)),
                 Command("sour:volt", voltage, by))

\* "if self.current_mode == 'Manual' and self.sock and not self.scan_active"
ManualAllowed_in_scan(m) == m.current_mode = "Manual"

ManualAllowed(m) == m.current_mode = "Manual" /\ ~m.scan_active

\* send_current_value(): slot of current_slider.valueChanged and volt_spin.valueChanged
send_current_value(m, by) ==
    IF ManualAllowed(m) /\ m.sock
    THEN SendSetpoint(m, m.slider * (MAG_AMP \div multiplier), m.volt, by)
    ELSE m

\* current_slider.setValue(value): the value is brought into 0 .. 120 * multiplier,
\* and valueChanged is emitted when it differs from the old one
setValue_unbounded(m, value, by) ==
    IF value = m.slider THEN m ELSE send_current_value([m EXCEPT !.slider = value], by)

setValue(m, value, by) ==
    LET v == Max(0, Min(120 * multiplier, value))
    IN  IF v = m.slider THEN m ELSE send_current_value([m EXCEPT !.slider = v], by)

\* int(round(current * self.multiplier)) for a current that is not half-way
\* between two slider positions
SliderOf(current) == (current + ((MAG_AMP \div multiplier) \div 2)) \div (MAG_AMP \div multiplier)

\* the panel after __init__: connect_device() has sent "sour:volt 0" and
\* "sour:curr 0" when the supply could be connected
MagnetStarted(connected) ==
    send_command(send_command(
        [pc |-> "run", sock |-> connected, sent |-> <<>>,
         current_mode |-> "Manual", current_values |-> <<0, 0, 0>>,
         data_counts |-> <<10, 10, 10>>, active_current_index |-> 0,
         last_data_count |-> 0, data_counter |-> 0, switch_timer |-> FALSE,
         enable_current3 |-> FALSE, files |-> 0,
         slider |-> 0, volt |-> 60000,
         scan_active |-> FALSE, scan_timer |-> FALSE, scan_current |-> 0,
         scan_start |-> 0, scan_stop |-> 0, scan_increment |-> 1000, scan_progress |-> 0],
        Command("sour:volt", 0, "connect")), Command("sour:curr", 0, "connect"))

\* every handler starts with an empty record of the lines it sends
Handling == [magnet EXCEPT !.sent = <<>>]

\* the handler ends with the fields m; m.pc = "raise": an exception left the slot,
\* and PyQt either aborts the process or only reports it
MagStep(m) ==
    /\ magnet.pc = "run"
    /\ IF m.pc = "raise"
       THEN magnet' \in {[m EXCEPT !.pc = "run"], [m EXCEPT !.pc = "crashed"]}
       ELSE magnet' = m
    /\ UNCHANGED ionVars
    /\ UNCHANGED stepVars
    /\ UNCHANGED maintVars
    /\ UNCHANGED dblVars

\* ---- manual control ----
\* self.current_step: the default step of the arrow buttons, in slider units
current_step == 100

\* send_direct_current(): current is direct_current_input.value()
send_direct_current(current) ==
    MagStep(IF 0 <= current /\ current <= 120 * MAG_AMP
            THEN setValue(Handling, SliderOf(current), "send_direct_current")
            ELSE Handling)

\* the arrow buttons are followed near the two ends of the slider's range
decrease_slider ==
    /\ magnet.pc = "run"
    /\ \/ magnet.slider <= MaxArrowSteps * current_step
       \/ magnet.slider >= (120 * multiplier) - (MaxArrowSteps * current_step)
    /\ MagStep(setValue(Handling, Max(0, magnet.slider - current_step), "decrease_slider"))

increase_slider ==
    /\ magnet.pc = "run"
    /\ \/ magnet.slider + current_step <= MaxArrowSteps * current_step
       \/ magnet.slider + current_step >= (120 * multiplier) - (MaxArrowSteps * current_step)
    /\ MagStep(setValue(Handling, Min(120 * multiplier, magnet.slider + current_step),
                        "increase_slider"))

\* set_calculated_current(): calculated is the number shown by the calculator
set_calculated_current(calculated) ==
    MagStep(setValue(Handling, SliderOf(calculated), "set_calculated_current"))

\* volt_spin.valueChanged: the operator changes the voltage limit to voltage
volt_changed(voltage) ==
    /\ magnet.pc = "run"
    /\ voltage # magnet.volt
    /\ MagStep(send_current_value([Handling EXCEPT !.volt = voltage], "volt_spin"))

\* the operator ticks or clears 'Enable Current 3'
toggle_current3 ==
    /\ magnet.pc = "run"
    /\ MagStep([Handling EXCEPT !.enable_current3 = ~@])

\* ---- Auto switching ----
\* apply_auto_current(): current_values[active_current_index] raises IndexError
\* for an index outside the list
apply_auto_current(m) ==
    IF m.active_current_index + 1 > Len(m.current_values)
    THEN [m EXCEPT !.pc = "raise"]
    ELSE SendSetpoint(m, m.current_values[m.active_current_index + 1], m.volt,
                      "apply_auto_current")

\* next_current(): the modulus is taken from the checkbox as it is now
next_current(m) ==
    apply_auto_current([m EXCEPT !.active_current_index =
                                     (@ + 1) % (IF m.enable_current3 THEN 3 ELSE 2)])

\* check_data_count(): one timeout of switch_timer
check_data_count ==
    /\ magnet.pc = "run"
    /\ magnet.switch_timer
    /\ LET m == Handling
           counter == m.data_counter + (m.files - m.last_data_count)
           counted == [m EXCEPT !.data_counter = counter, !.last_data_count = m.files]
       IN  MagStep(IF m.files <= m.last_data_count THEN m
                   ELSE IF m.active_current_index + 1 > Len(m.data_counts)
                   THEN [counted EXCEPT !.pc = "raise"]
                   ELSE IF counter >= m.data_counts[m.active_current_index + 1]
                   THEN next_current([counted EXCEPT !.data_counter = 0])
                   ELSE counted)

\* the Auto half and the Manual half of toggle_auto_mode(); currents and counts
\* are the values of the three pairs of spin boxes
start_auto(m, currents, counts) ==
    LET n == IF m.enable_current3 THEN 3 ELSE 2
        started == [m EXCEPT !.current_mode = "Auto",
                             !.current_values = SubSeq(currents, 1, n),
                             !.data_counts = SubSeq(counts, 1, n),
                             !.active_current_index = 0,
                             !.data_counter = 0,
                             !.last_data_count = m.files]
        applied == apply_auto_current(started)
    IN  [applied EXCEPT !.switch_timer = TRUE]

stop_auto(m) ==
    send_command(send_command([m EXCEPT !.current_mode = "Manual", !.switch_timer = FALSE],
                              Command("sour:volt", 0, "toggle_auto_mode")),
                 Command("sour:curr", 0, "toggle_auto_mode"))

toggle_auto_mode(currents, counts) ==
    /\ magnet.pc = "run"
    /\ MagStep(IF magnet.current_mode = "Manual"
               THEN start_auto(Handling, currents, counts)
               ELSE stop_auto(Handling))

\* a data file appears in the data path
MagFileAppears ==
    /\ magnet.pc = "run"
    /\ magnet.files < MaxMagFiles
    /\ MagStep([Handling EXCEPT !.files = @ + 1])

\* ---- mass scan ----
\* set_scan_current(): moves the slider, whose valueChanged slot runs first, then
\* writes the scan's own setpoint
\* ("if self.sock" holds for every socket object, connected or not)
set_scan_current(m) ==
    SendSetpoint(setValue(m, SliderOf(m.scan_current), "valueChanged"),
                 m.scan_current, m.volt, "set_scan_current")

\* the starting half and the stopping half of toggle_scan()
start_scan(m, enabled, start, target, increment) ==
    IF ~enabled THEN m
    ELSE LET read == [m EXCEPT !.scan_start = start, !.scan_stop = target,
                               !.scan_increment = increment]
         IN  IF start = target THEN read
             ELSE IF (increment > 0 /\ start > target) \/ (increment < 0 /\ start < target)
             THEN read
             ELSE [set_scan_current([read EXCEPT !.scan_current = start,
                                                 !.scan_active = TRUE])
                      EXCEPT !.scan_timer = TRUE]

stop_scan(m) == [m EXCEPT !.scan_active = FALSE, !.scan_timer = FALSE, !.scan_progress = 0]

toggle_scan(enabled, start, target, increment) ==
    /\ magnet.pc = "run"
    /\ MagStep(IF ~magnet.scan_active
               THEN start_scan(Handling, enabled, start, target, increment)
               ELSE stop_scan(Handling))

\* update_scan(): one timeout of scan_timer
update_scan ==
    /\ magnet.pc = "run"
    /\ magnet.scan_timer
    /\ LET m == Handling
           current == m.scan_current + m.scan_increment
           reached == \/ (m.scan_increment > 0 /\ current >= m.scan_stop)
                      \/ (m.scan_increment < 0 /\ current <= m.scan_stop)
           stepped == IF reached
                      THEN [m EXCEPT !.scan_current = m.scan_stop, !.scan_active = FALSE,
                                     !.scan_timer = FALSE]
                      ELSE [m EXCEPT !.scan_current = current]
           written == set_scan_current(stepped)
       IN  MagStep(IF ~m.scan_active THEN m
                   ELSE [written EXCEPT !.scan_progress =
                            (100 * (written.scan_current - m.scan_start))
                               \div (m.scan_stop - m.scan_start)])

\* ---- closing ----
\* closeEvent(): the Auto mode and the scan are stopped, then reply is the answer
\* to 'Do you want to shut down the magnet'
mag_closeEvent(reply) ==
    /\ magnet.pc = "run"
    /\ LET m == Handling
           a == IF m.current_mode = "Auto" THEN stop_auto(m) ELSE m
           stopped == IF a.scan_active THEN stop_scan(a) ELSE a
           answered == IF reply
                       THEN send_command(send_command(stopped,
                                Command("sour:volt", 0, "closeEvent")),
                                Command("sour:curr", 0, "closeEvent"))
                       ELSE send_command(stopped, Command("raw", 0, "closeEvent"))
       IN  MagStep([answered EXCEPT !.sock = FALSE, !.pc = "closed"])

\* the operator's entries are drawn from small sets of values of the spin boxes
MagNext ==
    \/ \E current \in {5006, 120 * MAG_AMP} : send_direct_current(current)
    \/ decrease_slider
    \/ increase_slider
    \/ \E calculated \in {0 - 8882, 130 * MAG_AMP} : set_calculated_current(calculated)
    \/ \E voltage \in {60000, 30000} : volt_changed(voltage)
    \/ toggle_current3
    \/ \E a \in {<<<<1 * MAG_AMP, 2 * MAG_AMP, 3 * MAG_AMP>>, <<1, 1, 1>>>>,
                 <<<<120 * MAG_AMP, 0, 5006>>, <<2, 1, 2>>>>} :
          toggle_auto_mode(a[1], a[2])
    \/ check_data_count
    \/ MagFileAppears
    \/ \E enabled \in BOOLEAN,
          i \in {<<0, 10006, 4000>>, <<118 * MAG_AMP, 120 * MAG_AMP, 10000>>,
                 <<10000, 0, 4000>>} :
          toggle_scan(enabled, i[1], i[2], i[3])
    \/ update_scan
    \/ \E reply \in BOOLEAN : mag_closeEvent(reply)

\* ========================================================================
\* Specifications
\* ========================================================================
vars == <<ionVars, stepVars, maintVars, dblVars, magnet>>

\* the maintenance panel and the magnet panel are not started, no ramp is followed
\* in double precision
MaintIdle ==
    /\ m_client = FALSE
    /\ m_nodes = [n \in MNodes |-> FALSE]
    /\ m_last = NoAttempt
    /\ DblIdle
    /\ magnet = MagnetOff

\* the ionizer panel alone; the stepper panel is not started
Init ==
    /\ pc = "init"
    /\ IonInit
    /\ StepInit
    /\ MaintIdle

IonSpec == Init /\ [][IonNext]_vars

\* the stepper panel alone; the ionizer panel is not started
StepperInit ==
    /\ pc = "init"
    /\ IonInit
    /\ files["home"] = NoFile
    /\ hw = 0
    /\ StepInit
    /\ MaintIdle

\* one call of run_sequence in the session
StepperSpec == StepperInit /\ [][StepNext({1}, BOOLEAN)]_vars

\* run_sequence may be called again while a worker is running: two workers on
\* lists of one step with a time dwell; the drive accepts every command
RunTwiceNext ==
    \/ \E step \in {s \in StepInputs : s.trigger_mode = "time"} : add_to_sequence(step)
    \/ clear_sequence
    \/ \E w \in Workers : run_sequence(w)
    \/ stop_movement
    \/ ui_recv
    \/ \E w \in Workers : WFor(w)
    \/ \E w \in Workers : WSend(w)
    \/ \E w \in Workers : WRecv(w)
    \/ \E w \in Workers, expired \in BOOLEAN : WPoll(w, expired)
    \/ \E w \in Workers : WAfterMove(w)
    \/ \E w \in Workers : WDwellTime(w)
    \/ \E w \in Workers : WAfterDwell(w)
    \/ \E w \in Workers : WEmit(w)
    \/ DriveCommand(TRUE)
    \/ DriveArrives

RunTwiceSpec == StepperInit /\ [][RunTwiceNext]_vars

\* one call of run_sequence while the operator edits the list; the drive accepts
\* every command
EditSpec == StepperInit /\ [][StepNext({1}, {TRUE})]_vars

\* the ionizer panel with one short ramp, beside the maintenance panel
GuardInit ==
    /\ pc = "init"
    /\ IonInit
    /\ files["home"] \in {NoFile, FileOf(CENTIAMP \div 2)}
    /\ hw = 0
    /\ StepInit
    /\ MaintInit
    /\ DblIdle
    /\ magnet = MagnetOff

GuardNext ==
    \/ \E reply \in BOOLEAN : LoadFailsafe(reply, TRUE)
    \/ \E t \in {0, CENTIAMP} : StartRamp(t, MAX_RAMP_RATE, TRUE, 0)
    \/ Tick(TRUE)
    \/ \E reply \in BOOLEAN : \E hw_ok \in Outcomes(reply) : EmergencyStop(reply, hw_ok)
    \/ MaintNext

\* the writes that ask the operator first: emergency stop, venting, pump valve
GuardSpec == GuardInit /\ [][GuardNext]_vars

\* the values start_ramp() is applied to: targets on both sides of
\* [0, MAX_CURRENT] as well as inside it
StartTargets == {0 - CENTIAMP, 0, CENTIAMP \div 2, CENTIAMP, MAX_CURRENT + CENTIAMP}

\* rates on both sides of the range of ramp_rate_input as well as inside it
StartRates == {0, MAX_RAMP_RATE, 2 * MAX_RAMP_RATE}

\* start_ramp(), update_ramp(), stop_ramp() and emergency_stop() on one ramp
StartInit ==
    /\ pc = "init"
    /\ IonInit
    /\ files["home"] \in {NoFile, FileOf(CENTIAMP \div 2)}
    /\ StepInit
    /\ MaintIdle

StartNext ==
    \/ \E reply \in BOOLEAN : LoadFailsafe(reply, TRUE)
    \/ \E t \in StartTargets, rate \in StartRates, rd_ok \in BOOLEAN : StartRamp(t, rate, rd_ok, 0)
    \/ \E hw_ok \in BOOLEAN : Tick(hw_ok)
    \/ StopRamp
    \/ \E reply \in BOOLEAN : \E hw_ok \in Outcomes(reply) : EmergencyStop(reply, hw_ok)

StartSpec == StartInit /\ [][StartNext]_vars

\* the magnet panel alone
MagInit ==
    /\ pc = "init"
    /\ IonInit
    /\ files["home"] = NoFile
    /\ hw = 0
    /\ StepInit
    /\ m_client = FALSE
    /\ m_nodes = [n \in MNodes |-> FALSE]
    /\ m_last = NoAttempt
    /\ DblIdle
    /\ magnet \in {MagnetStarted(connected) : connected \in BOOLEAN}

MagSpec == MagInit /\ [][MagNext]_vars

\* ramps from 0.0 A at MAX_RAMP_RATE followed tick by tick in double precision
DblInit ==
    /\ pc = "init"
    /\ IonInit
    /\ files["home"] = NoFile
    /\ hw = 0
    /\ StepInit
    /\ MaintIdle

DblSpec == DblInit /\ [][DblNext]_vars

\* the stepper panel with a list of SeqLen steps already assembled
SequenceInit ==
    /\ pc = "init"
    /\ IonInit
    /\ files["home"] = NoFile
    /\ hw = 0
    /\ MaintIdle
    /\ \E l \in SeqLists :
          /\ position_sequence = l
          /\ sequence_worker = 0
          /\ ui_pc = "idle"
          /\ w_pc = [w \in Workers |-> "none"]
          /\ w_running = [w \in Workers |-> TRUE]
          /\ w_sequence = [w \in Workers |-> <<>>]
          /\ w_idx = [w \in Workers |-> 0]
          /\ w_initial = [w \in Workers |-> 0]
          /\ w_remaining = [w \in Workers |-> 0]
          /\ w_finished = [w \in Workers |-> <<>>]
          /\ sock_out = <<>>
          /\ sock_in = <<>>
          /\ dev_target = 0
          /\ dev_pos = 0
          /\ dev_moving = FALSE
          /\ file_count = 0
          /\ sock_closed = FALSE
          /\ w_emitted = [w \in Workers |-> <<>>]
          /\ w_shares = [w \in Workers |-> FALSE]

\* one run of an assembled list; the operator may press STOP, the drive may refuse
SequenceSpec == SequenceInit /\ [][RunNext({1}, BOOLEAN)]_vars

\* one run of an assembled list, with the Home button and the closing of the window
PanelNext ==
    \/ RunNext({1}, {TRUE})
    \/ go_home
    \/ closeEvent

PanelSpec == SequenceInit /\ [][PanelNext]_vars


\* ========================================================================
\* Part V - the ionizer claims
\* ========================================================================

\* values outside 0 .. MAX_CURRENT a caller could pass to set_current
OutOfRange == {-AMP, -1, MAX_CURRENT + 1, MAX_CURRENT + MILLIAMP}

\* the value in the file self.failsafe_file names
FailsafeRecord == files[failsafe_file]

\* C1: every value set_current hands to the setpoint node lies in 0 .. 23 A, and a
\* call with a value outside that range returns False, writes nothing to the node
\* and leaves current_value and the failsafe file as they were.
C1_SetCurrentRangeGuard ==
    /\ last_call.result \in {"ok", "failed"} => InRange(last_call.value)
    /\ InRange(hw) /\ InRange(last_written)
    /\ \A v \in OutOfRange, hw_ok \in BOOLEAN :
          LET r == set_current(current_value, v, hw_ok, Caller("probe"))
          IN  /\ ~r.ret
              /\ r.last_call.result = "rejected"
              /\ r.hw = hw
              /\ r.current_value = current_value
              /\ r.files = files
              /\ r.last_written = last_written

\* a ramp has written its target, a value above 0, through set_current
C1_Witness ==
    /\ last_call.by = "ramp" /\ last_call.result = "ok"
    /\ hw = target_current /\ hw > 0

\* C2: every value a ramp writes lies between the start value start_ramp read and
\* the target, and the write that completes the ramp is the target.
C2_RampWritesWithinSpan ==
    (last_call.by = "ramp" /\ last_call.result = "ok") =>
        /\ Min(ramp_initial, target_current) <= last_call.value
        /\ last_call.value <= Max(ramp_initial, target_current)
        /\ ~ramp_active => last_call.value = target_current

\* C3: a ramp write that is not the final snap differs from the setpoint in force
\* before it by at most ramp rate x 100 ms.
C3_RampStepWithinRate ==
    [][(last_call'.by = "ramp" /\ last_call'.result = "ok"
        /\ last_call'.value # target_current)
       => Abs(last_call'.value - hw) <= ramp_rate * U]_vars

C5_WriteFailureAbortsRamp ==
    [][/\ (last_call'.by = "ramp" /\ last_call'.result = "failed") =>
             /\ ~ramp_active' /\ ramp_timer' = "stopped"
             /\ UNCHANGED <<hw, current_value, files, last_written, failsafe_file>>
       /\ last_call'.by = "ramp" =>
             ramp_active /\ ~(last_call.by = "ramp" /\ last_call.result = "failed")]_vars

\* a ramp tick's write failed after an earlier tick's write had succeeded
C5_Witness ==
    /\ last_call.by = "ramp" /\ last_call.result = "failed"
    /\ ~ramp_active /\ ramp_timer = "stopped" /\ indicator = "red"
    /\ hw # ramp_initial

\* C6: the ramp turns the indicator green (ramp complete) only in a handler whose
\* write of the target succeeded.
C6_CompleteOnlyAfterTargetWritten ==
    [][(indicator' = "green" /\ indicator # "green") =>
          /\ last_call'.result = "ok"
          /\ last_call'.value = target_current
          /\ hw' = target_current]_vars

\* C7: current_value equals the value of the last successful write, or 0.0 when
\* none has succeeded.
C7_CurrentValueIsLastWritten == current_value = last_written

C9_NoManualWriteDuringRamp ==
    (last_call.by = "file" /\ last_call.result = "ok") => ~last_call.ramping

\* ========================================================================
\* Part VI - the stepper claims
\* ========================================================================

\* C10: at most one SequenceWorker is inside run() at any time, so no two workers
\* use the shared socket together.
C10_SingleActiveSequence ==
    \A w1 \in Workers, w2 \in Workers : (isRunning(w1) /\ isRunning(w2)) => w1 = w2

\* ========================================================================
\* Part VII - the claims about a stepper sequence
\* ========================================================================

\* a worker has written "s r0xca <pos>" and has not yet written its "t 1"
InsideMove(w) == w_pc[w] \in {"recv_set", "send_go"}

\* C11: while a sequence runs, no command of the UI thread is written to the shared
\* socket between the worker's "s r0xca <pos>" and its "t 1"
C11_NoUiCommandInsideMove ==
    [][(\E w \in Workers : InsideMove(w)) => ~go_home]_vars

\* C12: when the 20 s of a move pass without the target position being reported and
\* nobody has stopped the run, the worker leaves the step for the end of the run and
\* does not go on to the measurement phase
C12_MoveTimeoutAborts ==
    [][\A w \in Workers :
          (WPoll(w, TRUE) /\ w_running[w]) => w_pc'[w] \in {"emit", "done"}]_vars

\* C13: a response other than "ok", or none, to "s r0xca <pos>" or to "t 1" ends the
\* run in that step with finished(False); the worker writes no further command
\* ("t 1" after a failed "s r0xca" included), starts no dwell and no later step, and
\* a run emits finished at most once
C13_RefusedCommandAborts ==
    [][\A w \in Workers :
          /\ (WRecv(w) /\ w_pc[w] \in {"recv_set", "recv_go"} /\ Response # Ok)
                => /\ w_pc'[w] = "done"
                   /\ w_finished'[w] = <<FALSE>>
                   /\ sock_out' = sock_out
          /\ w_pc[w] = "done"
                => /\ w_pc'[w] = "done"
                   /\ w_finished'[w] = w_finished[w]
                   /\ w_emitted'[w] = w_emitted[w]
                   /\ Len(sock_out') > Len(sock_out)
                         => sock_out'[Len(sock_out')].cmd = "stop"
          /\ Len(w_finished'[w]) <= 1]_vars

\* the run has ended with finished(False) in the move of its first step and nobody
\* has stopped it; the drive holds the target position and has not been started
C13_Witness ==
    /\ w_pc[1] = "done"
    /\ w_running[1]
    /\ w_emitted[1] = <<Moving(0), Finished(FALSE)>>
    /\ dev_target # 0
    /\ ~dev_moving

\* C14: the step that stops a running worker writes "t 0" to the socket, or leaves
\* the socket open for it to be written before the run ends
C14_StopIssuesHardwareStop ==
    [][\A w \in Workers :
          (isRunning(w) /\ w_running[w] /\ ~w_running'[w])
             => \/ /\ Len(sock_out') = Len(sock_out) + 1
                   /\ sock_out'[Len(sock_out')].cmd = "stop"
                \/ ~sock_closed']_vars

\* C15: once stop() has been called on a worker, its run emits no finished(True),
\* does not go on from the interrupted dwell to the head of the loop, starts no
\* later step and reports no move; what it still emits is finished(False)
C15_StopNeverCompletes ==
    [][\A w \in Workers :
          ~w_running[w]
             => /\ \A i \in DOMAIN w_finished'[w] : w_finished'[w][i] = FALSE
                /\ w_idx'[w] <= w_idx[w]
                /\ w_pc'[w] \in {"for", "send_set"} => w_pc'[w] = w_pc[w]
                /\ w_emitted'[w] # w_emitted[w]
                      => w_emitted'[w] = Append(w_emitted[w], Finished(FALSE))]_vars

\* a run stopped during the dwell of its first step has ended with finished(False)
C15_Witness ==
    /\ w_pc[1] = "done"
    /\ ~w_running[1]
    /\ w_emitted[1] = <<Moving(0), Dwelling(0), Finished(FALSE)>>
    /\ w_finished[1] = <<FALSE>>

\* the status changes of a complete run of n steps
ExpectedLog(n) ==
    [k \in 1 .. (2 * n + 1) |->
        IF k = 2 * n + 1 THEN Finished(TRUE)
        ELSE IF k % 2 = 1 THEN Moving((k - 1) \div 2)
        ELSE Dwelling((k \div 2) - 1)]

IsPrefix(s, t) == Len(s) <= Len(t) /\ \A i \in 1 .. Len(s) : s[i] = t[i]

\* C16: as long as a run of SeqLen steps has not been stopped and has not failed, the
\* status changes it has emitted are an initial part of Moving(0), Dwelling(0),
\* Moving(1), Dwelling(1), ..., Complete, and once Complete is emitted they are the
\* whole of it, so that Complete comes after the dwell update of the last step
C16_StatusOrder ==
    \A w \in Workers :
        /\ (w_running[w] /\ Finished(FALSE) \notin {w_emitted[w][i] : i \in DOMAIN w_emitted[w]})
              => IsPrefix(w_emitted[w], ExpectedLog(SeqLen))
        /\ w_finished[w] = <<TRUE>> => w_emitted[w] = ExpectedLog(SeqLen)

\* a run of SeqLen steps has completed
C16_Witness ==
    /\ w_pc[1] = "done"
    /\ Len(w_sequence[1]) = SeqLen
    /\ w_finished[1] = <<TRUE>>
    /\ w_emitted[1][2 * SeqLen] = Dwelling(SeqLen - 1)

\* the wait of the current step of w has met its trigger
DwellSatisfied(w) ==
    IF w_pc[w] = "dwell_time" THEN w_remaining[w] = 0
    ELSE /\ w_pc[w] = "dwell_files"
         /\ file_count - w_initial[w] >= CurrentStep(w).trigger_value

\* C17: a run takes its steps in list order, one at a time from the first: "t 1" is
\* written only after "ok" was read for "s r0xca <pos>" of the same step, the wait for
\* the position only after "ok" was read for "t 1", the dwell only after that wait,
\* the next step only after the trigger of the dwell was met, and finished(True) is
\* emitted only when the step after the last one is reached this way without a stop
C17_CompleteOnlyAfterEveryStep ==
    [][\A w \in Workers :
          /\ w_idx'[w] # w_idx[w]
                => \/ w_pc[w] = "none" /\ w_idx'[w] = 1
                   \/ w_pc'[w] = "done" /\ w_idx'[w] = 0
                   \/ w_pc[w] = "after_dwell" /\ w_running[w] /\ w_idx'[w] = w_idx[w] + 1
          /\ w_pc'[w] # w_pc[w]
                => /\ w_pc'[w] = "send_set"
                      => w_pc[w] = "for" /\ w_idx[w] \in DOMAIN w_sequence[w]
                   /\ w_pc'[w] = "send_go" => w_pc[w] = "recv_set" /\ Response = Ok
                   /\ w_pc'[w] = "poll_first" => w_pc[w] = "recv_go" /\ Response = Ok
                   /\ w_pc'[w] = "after_move"
                      => w_pc[w] \in {"recv_get", "poll_first", "poll_check"}
                   /\ w_pc'[w] \in {"dwell_time", "dwell_files"}
                      => w_pc[w] = "after_move" /\ w_running[w]
                   /\ w_pc'[w] = "after_dwell"
                      => w_pc[w] \in {"dwell_time", "dwell_files"}
                   /\ (w_pc'[w] = "after_dwell" /\ w_running[w]) => DwellSatisfied(w)
                   /\ (w_pc'[w] = "for" /\ w_pc[w] # "none")
                      => w_pc[w] = "after_dwell" /\ w_running[w]
          /\ w_finished'[w] # w_finished[w]
                => (w_finished'[w] = <<TRUE>>
                      => /\ w_pc[w] = "emit"
                         /\ w_idx[w] = Len(w_sequence[w]) + 1
                         /\ w_running[w])]_vars

\* a run whose second step waited for two data files has emitted finished(True)
C17_Witness ==
    /\ w_finished[1] = <<TRUE>>
    /\ w_sequence[1][2] = FileStep(2)
    /\ file_count >= 2
    /\ w_idx[1] = 0

\* C18: a poll of a file-count wait that has not been stopped ends the wait exactly
\* when the count read at the poll minus the baseline read at the entry of the wait
\* is at least trigger_value
C18_FileCountThreshold ==
    [][\A w \in Workers :
          (w_pc[w] = "dwell_files" /\ w_running[w])
             => /\ w_pc'[w] = "after_dwell"
                   => file_count - w_initial[w] >= CurrentStep(w).trigger_value
                /\ ENABLED WDwellFiles(w)
                   <=> file_count - w_initial[w] >= CurrentStep(w).trigger_value]_vars

\* a wait for two data files has ended at the poll that counted two files more than
\* its baseline and the worker has gone on to the next step
C18_Witness ==
    /\ w_pc[1] = "for"
    /\ w_running[1]
    /\ w_idx[1] = 3
    /\ w_sequence[1][2] = FileStep(2)
    /\ file_count - w_initial[1] = 2

\* C19: a file-count wait begins with the count of that moment as its baseline, a
\* time wait begins with the whole of its trigger_value to count, counts it down
\* one by one and, unless stopped, ends only at zero
C19_FreshDwell ==
    [][\A w \in Workers :
          /\ (w_pc'[w] = "dwell_files" /\ w_pc[w] # "dwell_files")
                => w_initial'[w] = file_count
          /\ (w_pc'[w] = "dwell_time" /\ w_pc[w] # "dwell_time")
                => w_remaining'[w] = CurrentStep(w).trigger_value
          /\ (w_pc'[w] = "dwell_time" /\ w_pc[w] = "dwell_time")
                => w_remaining'[w] \in {w_remaining[w], w_remaining[w] - 1}
          /\ (w_pc[w] = "dwell_time" /\ w_pc'[w] # "dwell_time" /\ w_running[w])
                => w_remaining[w] = 0]_vars

\* the third step of a run, a file-count wait after a file-count wait and a time
\* wait, has begun with the two files of the earlier steps as its baseline
C19_Witness ==
    /\ w_pc[1] = "dwell_files"
    /\ w_idx[1] = 3
    /\ w_sequence[1][1] = FileStep(1)
    /\ w_initial[1] = 2
    /\ file_count = 2

C21_GuardedWritesNeedYes ==
    [][/\ (last_call'.by = "estop" /\ last_call' # last_call)
             => \E hw_ok \in BOOLEAN : EmergencyStop(TRUE, hw_ok)
       /\ ((m_last' # m_last \/ m_nodes'["vent"] # m_nodes["vent"])
              /\ m_last'.node = "vent" /\ m_last'.state)
             => \E conn_ok, hw_ok \in BOOLEAN : confirm_start_venting(TRUE, conn_ok, hw_ok)
       /\ ((m_last' # m_last \/ m_nodes'["pump_valve"] # m_nodes["pump_valve"])
              /\ m_last'.node = "pump_valve" /\ m_last'.state)
             => \E conn_ok, hw_ok \in BOOLEAN : confirm_open_pump_valve(TRUE, conn_ok, hw_ok)
       /\ (m_nodes'["vent"] /\ ~m_nodes["vent"]) => m_last'.by = "confirm_start_venting"
       /\ (m_nodes'["pump_valve"] /\ ~m_nodes["pump_valve"])
             => m_last'.by = "confirm_open_pump_valve"
       /\ (hw' = 0 /\ hw # 0 /\ ~(last_call'.by = "ramp" /\ target_current = 0))
             => last_call'.by = "estop"
       /\ (\/ (pc = "run" /\ EmergencyStop(FALSE, TRUE))
           \/ confirm_start_venting(FALSE, TRUE, TRUE)
           \/ confirm_open_pump_valve(FALSE, TRUE, TRUE))
             => UNCHANGED vars]_vars

\* while a ramp is running the operator has confirmed the opening of the pump
\* valve and the node was written; the vent node is closed
C21_Witness ==
    /\ ramp_active /\ ramp_timer = "running"
    /\ m_last = [by |-> "confirm_open_pump_valve", node |-> "pump_valve", state |-> TRUE,
                 result |-> "ok"]
    /\ m_nodes["pump_valve"] /\ ~m_nodes["vent"]
    /\ hw # 0

\* C22: the failsafe value is handed to set_current only in the startup step, only
\* with the answer Yes to 'Confirm Load' and as the value the file holds; with the
\* answer No the startup step writes nothing to the node and current_value is 0.0
C22_StartupLoadNeedsYes ==
    [][/\ (last_call'.by = "failsafe" \/ (pc = "init" /\ hw' # hw))
             => /\ pc = "init"
                /\ \E hw_ok \in BOOLEAN : LoadFailsafe(TRUE, hw_ok)
                /\ last_call'.by = "failsafe"
                /\ last_call'.value = FailsafeRecord.text[1]
       /\ (pc = "init" /\ LoadFailsafe(FALSE, TRUE))
             => /\ hw' = hw
                /\ last_written' = last_written
                /\ last_call' = NoCall
                /\ current_value' = 0]_vars

\* the operator declined the load of a stored value above 0: nothing was written
C22_Witness ==
    /\ pc = "run"
    /\ status_label = "load_cancelled"
    /\ FailsafeRecord = FileOf(MAX_CURRENT)
    /\ current_value = 0
    /\ hw = CENTIAMP \div 2
    /\ last_call = NoCall

\* C23: a ramp that is active has a running timer, so that its ticks go on until the
\* target is written and the ramp completes
C23_ActiveRampCompletes == ramp_active => ramp_timer = "running"

\* C24: the ramp from 0.0 A to 10.0 A at 1.0 A/min with a tick every 100 ms has
\* 6000 steps, makes 6000 writes, no more and no fewer, and its last write is
\* exactly 10.0 A
C24_TenAmpereRamp ==
    d_target = DoubleOf(10)
       => /\ d_steps = 6000
          /\ d_ticks <= 6000
          /\ d_pc = "complete" <=> d_ticks = 6000
          /\ d_pc = "complete" => d_current = DoubleOf(10)
          /\ d_pc = "ramping" => ~DGeq(d_current, d_target)

\* the ramp to 10.0 A has completed with its 6000th write
C24_Witness ==
    /\ d_pc = "complete"
    /\ d_target = DoubleOf(10)
    /\ d_ticks = 6000
    /\ d_current = d_target

\* ------------------------------------------------------------------------
\* Part IX: claims about the edge cases of a ramp
\* ------------------------------------------------------------------------

OutsideRange(t) == t < 0 \/ t > MAX_CURRENT

\* C25: start_ramp with a target below 0 or above MAX_CURRENT writes nothing to
\* the node, starts no timer and no ramp, and leaves current_value and the
\* failsafe file as they were; it ends the same way whether or not the node
\* could have been read, so the node is not read either
C25_OutOfRangeTargetRejected ==
    [][\A t \in StartTargets : \A rd_ok \in BOOLEAN :
          (OutsideRange(t) /\ StartRamp(t, MAX_RAMP_RATE, rd_ok, 0))
             => /\ UNCHANGED <<hw, last_written, current_value, files>>
                /\ last_call' = NoCall
                /\ UNCHANGED <<ramp_active, ramp_timer, ramps, status_label, indicator, pc>>
                /\ ~ramp_active'
                /\ ramp_timer' # "running"]_vars

\* start_ramp has returned from the range guard: the target it took from the
\* input lies outside the range and nothing is ramping
C25_Witness ==
    /\ pc = "run"
    /\ OutsideRange(target_current)
    /\ ~ramp_active
    /\ ramp_timer = "none"
    /\ ramps = 0

\* the latest ramp has ended: by ramp_complete() or by an earlier stop
RampOver == ramps > 0 /\ ~ramp_active /\ ramp_timer = "stopped"

\* C26: stop_ramp called once a ramp has completed changes nothing, however often
\* it is called: ramp_active, the timer, the indicator and the status stay.  In
\* the tick that completes the ramp and then fails to write, where stop_ramp
\* follows ramp_complete, the step leaves what ramp_complete and the failed write
\* left: the ramp over, the indicator green, the node, current_value and the
\* failsafe file as before
C26_StopAfterCompleteIsNoOp ==
    [][/\ RampOver => /\ stop_ramp(RampUi) = RampUi
                      /\ stop_ramp(stop_ramp(RampUi)) = RampUi
       /\ (ramp_active /\ Crosses(current_value + ramp_step_size) /\ Tick(FALSE))
             => /\ RampOver'
                /\ indicator' = "green"
                /\ status_label' = "write_error"
                /\ UNCHANGED <<hw, last_written, current_value, files>>]_vars

\* the ramp is over with a green indicator, and the latest write, the one of a
\* tick for the target, failed
C26_Witness ==
    /\ RampOver
    /\ indicator = "green"
    /\ status_label = "write_error"
    /\ last_call.by = "ramp"
    /\ last_call.result = "failed"
    /\ last_call.value = target_current

\* C27: start_ramp with a target in range that equals the value just read from
\* the node returns at once: no timer and no ramp is started, nothing is written
\* to the node or the failsafe file, no error is reported and ramp_active stays
\* false
C27_AtTargetNoTicks ==
    [][\A t \in StartTargets :
          (InRange(t) /\ get_current(TRUE, 0) = <<t>> /\ StartRamp(t, MAX_RAMP_RATE, TRUE, 0))
             => /\ UNCHANGED <<hw, last_written, current_value, files>>
                /\ last_call' = NoCall
                /\ UNCHANGED <<ramp_active, ramp_timer, ramps, ramp_steps, status_label,
                               indicator, pc>>
                /\ ~ramp_active'
                /\ ramp_timer' # "running"]_vars

\* start_ramp has taken a target above 0 that the node already holds, and no
\* ramp was started
C27_Witness ==
    /\ pc = "run"
    /\ target_current = hw
    /\ target_current > 0
    /\ ~ramp_active
    /\ ramp_timer = "none"
    /\ ramps = 0
    /\ status_label # "read_error"

\* ------------------------------------------------------------------------
\* Part X: claims about what an aborted run reports, the ramp rate and the
\* commands sent after a stop
\* ------------------------------------------------------------------------

\* the drive refused, or did not answer, the command worker w waits on: run()
\* gives up the run
AbortStep(w) == InFlight(w) /\ Aborts(w, Response) /\ WRecv(w)

\* what the controller logs when the operator has stopped a run
UserStopLog == "Sequence stopped"

\* C28: when the drive refuses a command of step k, what the run reports to the
\* controller tells the failure apart from a stop by the operator
C28_AbortReportTellsFailure ==
    [][\A w \in Workers :
          AbortStep(w)
             => on_sequence_complete(w_finished'[w][Len(w_finished'[w])]) # UserStopLog]_vars

BadRate(rate) == rate <= 0 \/ rate > MAX_RAMP_RATE

C30_NoMoveCommandAfterStop ==
    [][\A w \in Workers :
          (~w_running[w] /\ ~sock_closed)
             => ~(w_pc[w] \in {"send_set", "send_go"} /\ WSend(w))]_vars

\* ========================================================================
\* Part XI - the claims about an active ramp and about the stopping of a run
\* ========================================================================

\* C31: whenever ramp_active is true a ramp timer is running, ramp_steps is at
\* least 1, and ramp_step_size is not zero and has the sign of the target minus
\* the value read when the ramp started
C31_ActiveRampWellFormed ==
    ramp_active
       => /\ ramp_timer = "running"
          /\ ramp_steps >= 1
          /\ ramp_step_size # 0
          /\ Sign(ramp_step_size) = Sign(target_current - ramp_initial)

\* the places of run() inside the move wait, the time dwell and the file-count
\* dwell, and the way from them to the end of run()
WaitPlaces == {"send_get", "recv_get", "poll_first", "poll_check", "dwell_time", "dwell_files",
               "after_move", "after_dwell", "emit"}

\* the number of steps run() has left from a place once the flag is cleared
StopRank(place) ==
    CASE place = "send_get" -> 5
      [] place = "recv_get" -> 4
      [] place \in {"poll_first", "poll_check", "dwell_time", "dwell_files"} -> 3
      [] place \in {"after_move", "after_dwell"} -> 2
      [] place = "emit" -> 1
      [] OTHER -> 0

WorkerStep(w) ==
    \/ WSend(w) \/ WRecv(w) \/ WPoll(w, FALSE) \/ WAfterMove(w) \/ WDwellTime(w)
    \/ WDwellFiles(w) \/ WAfterDwell(w) \/ WEmit(w)

\* C32: once stop() has cleared the flag of a worker that is in the move wait, in
\* the time dwell or in the file-count dwell, the worker can always go on (a poll
\* it was about to send goes out as soon as the socket takes it), every step it
\* takes brings it nearer to the end of run(), it begins no poll other than that
\* one, and it ends by emitting finished(False)
C32_StopEndsRunWithinOnePoll ==
    [][\A w \in Workers :
          (~w_running[w] /\ w_pc[w] \in WaitPlaces)
             => /\ (w_pc[w] = "send_get" => Len(sock_out) + Len(sock_in) < MaxPending)
                      => ENABLED WorkerStep(w)
                /\ w_pc'[w] # w_pc[w]
                      => /\ StopRank(w_pc'[w]) < StopRank(w_pc[w])
                         /\ w_pc'[w] = "send_get" => FALSE
                         /\ w_pc'[w] \in WaitPlaces \/ w_pc'[w] = "done"
                         /\ w_pc'[w] = "done"
                               => w_finished'[w] = Append(w_finished[w], FALSE)
                /\ w_pc'[w] = w_pc[w] => UNCHANGED <<w_remaining[w], w_emitted[w]>>]_vars

\* worker 1 was stopped during a dwell and has emitted finished(False)
C32_Witness ==
    /\ w_pc[1] = "done"
    /\ ~w_running[1]
    /\ w_finished[1] = <<FALSE>>
    /\ Len(w_emitted[1]) >= 2
    /\ w_emitted[1][Len(w_emitted[1]) - 1].kind = "Dwelling"

\* ========================================================================
\* Part XII - the claims about the magnet panel
\* ========================================================================
\* the lines of kind cmd among the lines the latest handler wrote
Written(m, cmd) == {i \in DOMAIN m.sent : m.sent[i].cmd = cmd}

\* a poll that went on to the next of the captured currents and applied it
SwitchedToNext ==
    /\ magnet'.pc = "run"
    /\ magnet'.active_current_index
          = (magnet.active_current_index + 1) % Len(magnet.current_values)
    /\ magnet'.data_counter = 0
    /\ magnet.sock
          => \E i \in Written(magnet', "sour:curr") :
                magnet'.sent[i].val
                   = magnet.current_values[magnet'.active_current_index + 1]

\* the files counted since the last switch, those seen by this poll included
Accumulated == magnet.data_counter + (magnet.files - magnet.last_data_count)

\* C33: a poll of the Auto mode switches to the next current exactly when the
\* files accumulated since the last switch have reached the count of the active
\* current, and a poll that saw no new file changes nothing
C33_SwitchExactlyAtCount ==
    [][(check_data_count /\ magnet.current_mode = "Auto")
          => /\ magnet.files > magnet.last_data_count
                   => (SwitchedToNext
                          <=> (/\ magnet.active_current_index + 1 <= Len(magnet.data_counts)
                               /\ Accumulated
                                     >= magnet.data_counts[magnet.active_current_index + 1]))
             /\ magnet.files <= magnet.last_data_count
                   => /\ magnet'.active_current_index = magnet.active_current_index
                      /\ Written(magnet', "sour:curr") = {}]_vars

\* C34: in the Auto mode the active index is an index into the captured lists
C34_IndexWithinCaptured ==
    (magnet.pc # "off" /\ magnet.current_mode = "Auto")
       => /\ magnet.active_current_index + 1 <= Len(magnet.current_values)
          /\ magnet.active_current_index + 1 <= Len(magnet.data_counts)

\* C35: a mass scan and the Auto switching are never active together
C35_ScanAndAutoExclusive ==
    magnet.pc # "off" => ~(magnet.current_mode = "Auto" /\ magnet.scan_active)

\* the handlers of the operator's manual controls
ManualHandlers == {"send_direct_current", "decrease_slider", "increase_slider",
                   "set_calculated_current", "volt_spin"}

\* C36: a handler of a manual control writes to the supply only when it starts in
\* the Manual mode with no scan active
C36_ManualWritesOnlyInManual ==
    [][magnet.pc = "run"
          => \A i \in DOMAIN magnet'.sent :
                magnet'.sent[i].by \in ManualHandlers
                   => magnet.current_mode = "Manual" /\ ~magnet.scan_active]_vars

\* the direct input was applied during a scan: the slider took the value and no
\* line was written
C36_Witness ==
    /\ magnet.pc = "run"
    /\ magnet.sock
    /\ magnet.scan_active
    /\ magnet.slider = SliderOf(5006)
    /\ magnet.sent = <<>>

\* C37: every tick of a rising scan writes currents within [start, stop] only,
\* the tick that reaches stop writes it and leaves the scan inactive with its
\* timer stopped, and the progress stays within 0 .. 100, never falls and is 100
\* at the end
C37_ScanWritesWithinRange ==
    [][(update_scan /\ magnet.scan_active /\ magnet.scan_increment > 0)
          => /\ \A i \in Written(magnet', "sour:curr") :
                   /\ magnet.scan_start <= magnet'.sent[i].val
                   /\ magnet'.sent[i].val <= magnet.scan_stop
             /\ magnet'.scan_progress \in 0..100
             /\ magnet'.scan_progress >= magnet.scan_progress
             /\ ~magnet'.scan_active
                   => /\ ~magnet'.scan_timer
                      /\ magnet'.scan_progress = 100
                      /\ magnet.sock
                            => magnet'.sent[Len(magnet'.sent) - 1]
                                  = Command("sour:curr", magnet.scan_stop,
                                            "set_scan_current")]_vars

\* C38: every "sour:curr" line carries a value within 0 .. 120 A
C38_CurrentWithinLimits ==
    magnet.pc # "off"
       => \A i \in Written(magnet, "sour:curr") :
             0 <= magnet.sent[i].val /\ magnet.sent[i].val <= 120 * MAG_AMP

\* the calculator asked for more than 120 A and 120 A was written
C38_Witness ==
    /\ magnet.pc = "run"
    /\ \E i \in Written(magnet, "sour:curr") :
          /\ magnet.sent[i].by = "set_calculated_current"
          /\ magnet.sent[i].val = 120 * MAG_AMP

\* C39: closing the panel with the answer No writes no current or voltage setpoint
C39_CloseWithNoKeepsSetpoints ==
    [][mag_closeEvent(FALSE)
          => Written(magnet', "sour:curr") \cup Written(magnet', "sour:volt") = {}]_vars

====
